---------------------------- MODULE Spec2Model ----------------------------
(***************************************************************************)
(* A model of the registry-driven LP rebalancing ability                   *)
(* (src/unnamed/part_000, lines 385-1241).                                 *)
(*                                                                         *)
(* Three specifications share the module:                                  *)
(*   SpecRetry      withRpcRetry around one scripted operation             *)
(*   SpecDiscovery  fetchProjectCreationEvents + discoverProjects          *)
(*   Spec           one run of vincentAbility.execute                      *)
(***************************************************************************)
EXTENDS Integers, Sequences, FiniteSets, TLC

(***************************************************************************)
(* Program constants.                                                      *)
(***************************************************************************)
DEFAULT_DEVIATION_THRESHOLD_BPS == 150
DEFAULT_REBALANCE_LIQUIDITY_BPS == 2500
MAX_EVENT_BLOCK_SPAN == 10
RPC_MAX_RETRIES == 3
RPC_RETRY_BASE_DELAY_MS == 1000
BPS_DENOMINATOR == 10000

(***************************************************************************)
(* Bounds of the model.                                                    *)
(***************************************************************************)
MaxScript == 4
MaxBlock == 21
MaxEvents == 2
MaxProjects == 2
MaxPositions == 2
NumTokens == 3
MaxPrice == 12
MaxOwned == 3
MaxUrlParts == 2

VARIABLES
    \* ---- withRpcRetry ----
    operationScript,  \* what the wrapped operation does on its k-th invocation
    attempt,          \* let attempt
    lastError,        \* let lastError
    retryPc,          \* "idle" | "operation" | "delay" | "returned" | "thrown"
    invocations,      \* number of times operation() has been invoked
    delays,           \* the delay(ms) calls performed, in order
    retryResult,      \* the value returned or the error thrown
    \* ---- the registry's chain state, as seen by project discovery ----
    chainEvents,      \* ProjectCreated logs in chain order (block, log index)
    chainLatest,      \* the latest block height
    chainCount,       \* what registry.projectCount() returns
    \* ---- fetchProjectCreationEvents / discoverProjects ----
    discPc,           \* "idle" | "getBlockNumber" | "projectCount" | "scan"
                      \*  | "pyusd" | "returned" | "failed"
    latestBlock,      \* const latestBlock
    totalProjects,    \* const totalProjects
    currentEndBlock,  \* let currentEndBlock
    events,           \* const events: Event[]
    seenProjects,     \* const seenProjects = new Set<string>()
    queries,          \* the [start, end] ranges passed to queryFilter, in order
    eventIndex,       \* position of discoverProjects' for loop in events
    projectsMap,      \* const projectsMap (a Map keeps insertion order)
    \* ---- vincentAbility.execute ----
    registryValid,    \* ethers.utils.isAddress(registryAddress)
    delegation,       \* which fields of delegation.delegatorPkpInfo are present
    pc,               \* position of the run (see ExecInit and the actions)
    projects,         \* const projects
    metrics,          \* const metrics (NoValue while a project's reads run)
    readsInFlight,    \* chain reads issued and not yet settled
    ownedPositions,   \* const ownedPositions
    metricIndex,      \* for (const metric of metrics)
    positionIndex,    \* for (const position of metric.positions)
    balances,         \* [balance0, balance1, allowance0, allowance1]
    callsInFlight,    \* contractCall requests issued, hash not yet returned
    issued,           \* number of contractCall requests issued so far
    actions,          \* const actions: ActionRecord[]
    walletReads,      \* what the balanceOf/allowance reads returned, in order
    readFailure,      \* the read whose throw reached the handler: error, attempt
    settled,          \* the projects whose metrics have resolved, in that order
    result,           \* what execute returned: succeed(...) or fail(...)
    \* ---- one call of a pure function ----
    unitPc,           \* "idle" | "call" | "swapped" | "returned"
    unitInput,        \* the arguments
    unitOutput,       \* what the function returned
    \* ---- fetchOwnedPositions and the position manager it reads ----
    ownerTokens,      \* the owner's token ids on chain, by owner index
    ownedPc,          \* "idle" | "balanceOf" | "tokenOfOwnerByIndex" |
                      \* "positions" | "returned" | "failed"
    ownedCount,       \* const count
    ownedIndex,       \* let index
    ownedTokenId,     \* const tokenId of the current iteration
    ownedList,        \* const positions: PositionInfo[]
    ownedReads,       \* the reads made so far, in order
    ownedResult       \* what fetchOwnedPositions returned or that it threw

retryVars == <<operationScript, attempt, lastError, retryPc, invocations,
               delays, retryResult>>

chainVars == <<chainEvents, chainLatest, chainCount>>

discVars == <<discPc, latestBlock, totalProjects, currentEndBlock, events,
              seenProjects, queries, eventIndex, projectsMap>>

execVars == <<registryValid, delegation, pc, projects, metrics, readsInFlight,
              ownedPositions, metricIndex, positionIndex, balances,
              callsInFlight, issued, actions, walletReads, readFailure,
              settled, result>>

unitVars == <<unitPc, unitInput, unitOutput>>

enumVars == <<ownerTokens, ownedPc, ownedCount, ownedIndex, ownedTokenId,
              ownedList, ownedReads, ownedResult>>

vars == <<retryVars, chainVars, discVars, execVars, unitVars, enumVars>>

\* What the actions of one specification leave alone.
notRetry == <<chainVars, discVars, execVars, unitVars, enumVars>>
notDisc == <<retryVars, chainVars, execVars, unitVars, enumVars>>
notExec == <<retryVars, chainVars, discVars, unitVars, enumVars>>
notUnit == <<retryVars, chainVars, discVars, execVars, enumVars>>
notEnum == <<retryVars, chainVars, discVars, execVars, unitVars>>

NoValue == [kind |-> "none"]

Max(a, b) == IF a >= b THEN a ELSE b
Min(a, b) == IF a <= b THEN a ELSE b
Range(seq) == { seq[i] : i \in DOMAIN seq }

\* Addresses are numbers: 1..NumTokens are the all-lower-case spellings and
\* a + NumTokens is the mixed-case (checksummed) spelling of address a.
Upper(a) == a + NumTokens
toLowerCase_Identity(a) == a
\* String.prototype.toLowerCase on an address
toLowerCase(a) == IF a > NumTokens THEN a - NumTokens ELSE a

\* The parts of the state a specification does not use rest at these values.
RetryIdle ==
    /\ operationScript = <<>>
    /\ attempt = 0
    /\ lastError = NoValue
    /\ retryPc = "idle"
    /\ invocations = 0
    /\ delays = <<>>
    /\ retryResult = NoValue

ChainIdle ==
    /\ chainEvents = <<>>
    /\ chainLatest = 0
    /\ chainCount = 0

DiscIdle ==
    /\ discPc = "idle"
    /\ latestBlock = 0
    /\ totalProjects = 0
    /\ currentEndBlock = 0
    /\ events = <<>>
    /\ seenProjects = {}
    /\ queries = <<>>
    /\ eventIndex = 0
    /\ projectsMap = <<>>

UnitIdle ==
    /\ unitPc = "idle"
    /\ unitInput = NoValue
    /\ unitOutput = NoValue

EnumIdle ==
    /\ ownerTokens = <<>>
    /\ ownedPc = "idle"
    /\ ownedCount = 0
    /\ ownedIndex = 0
    /\ ownedTokenId = 0
    /\ ownedList = <<>>
    /\ ownedReads = <<>>
    /\ ownedResult = NoValue

NoBalances == [balance0 |-> 0, balance1 |-> 0, allowance0 |-> 0, allowance1 |-> 0]

ExecIdle ==
    /\ registryValid = FALSE
    /\ delegation = [publicKey |-> FALSE, ethAddress |-> FALSE]
    /\ pc = "idle"
    /\ projects = <<>>
    /\ metrics = <<>>
    /\ readsInFlight = {}
    /\ ownedPositions = <<>>
    /\ metricIndex = 0
    /\ positionIndex = 0
    /\ balances = NoBalances
    /\ callsInFlight = {}
    /\ issued = 0
    /\ actions = <<>>
    /\ walletReads = <<>>
    /\ readFailure = NoValue
    /\ settled = <<>>
    /\ result = NoValue


(***************************************************************************)
(* withRpcRetry (part_000:533-576).                                        *)
(***************************************************************************)
\* A thrown value: obj = FALSE is a non-object (a string); status 0 and
\* code "" stand for an absent field.
ErrorChoices ==
    { [kind |-> "error", obj |-> FALSE, status |-> 0,   code |-> ""],
      [kind |-> "error", obj |-> TRUE,  status |-> 500, code |-> ""],
      [kind |-> "error", obj |-> TRUE,  status |-> 499, code |-> ""],
      [kind |-> "error", obj |-> TRUE,  status |-> 0,   code |-> "SERVER_ERROR"],
      [kind |-> "error", obj |-> TRUE,  status |-> 0,   code |-> "CALL_EXCEPTION"],
      [kind |-> "error", obj |-> TRUE,  status |-> 503, code |-> "CALL_EXCEPTION"],
      [kind |-> "error", obj |-> TRUE,  status |-> 404, code |-> "NETWORK_ERROR"] }

ValueChoices == { [kind |-> "value", v |-> 11], [kind |-> "value", v |-> 22] }

OutcomeChoices == ErrorChoices \cup ValueChoices

isRetryableRpcError_StatusOnly(error) ==
    error.obj /\ error.status # 0 /\ error.status >= 500

isRetryableRpcError(error) ==
    IF ~error.obj THEN FALSE
    ELSE IF error.status # 0 /\ error.status >= 500 THEN TRUE
    ELSE IF error.code = "" THEN FALSE
    ELSE error.code = "SERVER_ERROR" \/ error.code = "NETWORK_ERROR"

\* Entry: attempt = 0, the while condition holds, attempt += 1, operation().
RetryInit ==
    /\ ChainIdle
    /\ DiscIdle
    /\ ExecIdle
    /\ UnitIdle
    /\ EnumIdle
    /\ operationScript \in [1..MaxScript -> OutcomeChoices]
    /\ attempt = 1
    /\ lastError = NoValue
    /\ retryPc = "operation"
    /\ invocations = 1
    /\ delays = <<>>
    /\ retryResult = NoValue

\* return await operation();
OperationReturns ==
    /\ retryPc = "operation"
    /\ operationScript[invocations].kind = "value"
    /\ retryPc' = "returned"
    /\ retryResult' = operationScript[invocations]
    /\ UNCHANGED <<operationScript, attempt, lastError, invocations, delays>>
    /\ UNCHANGED notRetry

ShouldRethrow_AlwaysRetry(error, n) == n = RPC_MAX_RETRIES

ShouldRethrow_OneMore(error, n) ==
    ~isRetryableRpcError(error) \/ n = RPC_MAX_RETRIES + 1

\* if (!isRetryableRpcError(error) || attempt === RPC_MAX_RETRIES) throw error;
ShouldRethrow(error, n) ==
    ~isRetryableRpcError(error) \/ n = RPC_MAX_RETRIES

backoffMs_Constant(n) == RPC_RETRY_BASE_DELAY_MS

\* const backoffMs = RPC_RETRY_BASE_DELAY_MS * attempt;
backoffMs(n) == RPC_RETRY_BASE_DELAY_MS * n

\* catch (error) { lastError = error; ... throw error | await delay(backoffMs) }
OperationThrows ==
    /\ retryPc = "operation"
    /\ operationScript[invocations].kind = "error"
    /\ lastError' = operationScript[invocations]
    /\ IF ShouldRethrow(operationScript[invocations], attempt)
       THEN /\ retryPc' = "thrown"
            /\ retryResult' = operationScript[invocations]
            /\ UNCHANGED delays
       ELSE /\ retryPc' = "delay"
            /\ delays' = Append(delays, backoffMs(attempt))
            /\ UNCHANGED retryResult
    /\ UNCHANGED <<operationScript, attempt, invocations>>
    /\ UNCHANGED notRetry

\* The delay elapses; back at the while condition: either the next attempt
\* starts (attempt += 1; operation()) or the loop ends and lastError is thrown.
DelayElapses ==
    /\ retryPc = "delay"
    /\ IF attempt < RPC_MAX_RETRIES /\ invocations < MaxScript
       THEN /\ attempt' = attempt + 1
            /\ invocations' = invocations + 1
            /\ retryPc' = "operation"
            /\ UNCHANGED retryResult
       ELSE /\ retryPc' = "thrown"
            /\ retryResult' = lastError
            /\ UNCHANGED <<attempt, invocations>>
    /\ UNCHANGED <<operationScript, lastError, delays>>
    /\ UNCHANGED notRetry

RetryNext == OperationReturns \/ OperationThrows \/ DelayElapses

(***************************************************************************)
(* Project discovery (part_000:630-719).                                   *)
(***************************************************************************)
PYUSD == 2

\* A history: n creation events of n distinct projects, at nondecreasing
\* block heights in [0, latest]; the registry's count is any of 0..n+1.
Histories(latest) ==
    UNION { { [i \in 1..n |-> [project |-> perm[i], token |-> perm[i],
                               blockNumber |-> blocks[i]]] :
                perm \in { f \in [1..n -> 1..n] :
                             \A i, j \in 1..n : i # j => f[i] # f[j] },
                blocks \in { b \in [1..n -> 0..latest] :
                             \A i \in 1..n : i < n => b[i] <= b[i + 1] } } :
            n \in 0..MaxEvents }

DiscInit ==
    /\ RetryIdle
    /\ ExecIdle
    /\ UnitIdle
    /\ EnumIdle
    /\ chainLatest \in 0..MaxBlock
    /\ chainEvents \in Histories(chainLatest)
    /\ chainCount \in 0..(Len(chainEvents) + 1)
    /\ discPc = "getBlockNumber"
    /\ latestBlock = 0
    /\ totalProjects = 0
    /\ currentEndBlock = 0
    /\ events = <<>>
    /\ seenProjects = {}
    /\ queries = <<>>
    /\ eventIndex = 0
    /\ projectsMap = <<>>

\* const latestBlock = await withRpcRetry(() => provider.getBlockNumber())
GetBlockNumber ==
    /\ discPc = "getBlockNumber"
    /\ latestBlock' = chainLatest
    /\ discPc' = "projectCount"
    /\ UNCHANGED <<totalProjects, currentEndBlock, events, seenProjects,
                   queries, eventIndex, projectsMap>>
    /\ UNCHANGED notDisc

ScanContinues_IgnoresCount(endBlock, seen, total) == endBlock >= 0

\* while (currentEndBlock >= 0 && seenProjects.size < totalProjects)
ScanContinues(endBlock, seen, total) ==
    endBlock >= 0 /\ Cardinality(seen) < total

\* After the scan loop: events.sort(...) and discoverProjects' for loop up to
\* its first pyusd() read, or its return when no event is left.
RECURSIVE InsertByBlock(_, _)
InsertByBlock(sorted, e) ==
    IF sorted = <<>> THEN <<e>>
    ELSE IF sorted[Len(sorted)].blockNumber <= e.blockNumber
         THEN Append(sorted, e)
         ELSE Append(InsertByBlock(SubSeq(sorted, 1, Len(sorted) - 1), e),
                     sorted[Len(sorted)])

RECURSIVE SortFrom(_, _)
SortFrom(seq, sorted) ==
    IF seq = <<>> THEN sorted
    ELSE SortFrom(Tail(seq), InsertByBlock(sorted, Head(seq)))

sortByBlockNumber_Unsorted(seq) == seq

\* events.sort((a, b) => a.blockNumber - b.blockNumber): a stable sort
sortByBlockNumber(seq) == SortFrom(seq, <<>>)

currentStartBlock_Overshoot(endBlock) ==
    Max(0, endBlock - MAX_EVENT_BLOCK_SPAN)

\* Math.max(0, currentEndBlock - MAX_EVENT_BLOCK_SPAN + 1)
currentStartBlock(endBlock) == Max(0, endBlock - MAX_EVENT_BLOCK_SPAN + 1)

\* registry.queryFilter(filter, start, end): the logs of the range, in order
queryFilter(startBlock, endBlock) ==
    SelectSeq(chainEvents,
              LAMBDA e : startBlock <= e.blockNumber /\ e.blockNumber <= endBlock)

\* for (const event of batch): first sight of a project keeps the event
RECURSIVE AccumulateBatch(_, _, _)
AccumulateBatch(batch, seen, kept) ==
    IF batch = <<>> THEN [seen |-> seen, kept |-> kept]
    ELSE LET normalized == toLowerCase(Head(batch).project) IN
         IF normalized \in seen
         THEN AccumulateBatch(Tail(batch), seen, kept)
         ELSE AccumulateBatch(Tail(batch), seen \cup {normalized},
                              Append(kept, Head(batch)))

MapHas(map, projectAddress) ==
    \E i \in DOMAIN map : map[i].projectAddress = projectAddress

\* discoverProjects' loop from index i: the index of the first event whose
\* project is not yet in projectsMap (Len + 1 when there is none).
RECURSIVE NextUnmapped(_, _, _)
NextUnmapped(evs, i, map) ==
    IF i > Len(evs) THEN i
    ELSE IF MapHas(map, evs[i].project) THEN NextUnmapped(evs, i + 1, map)
    ELSE i

ProjectCount_QueryBeforeTest ==
    /\ discPc = "projectCount"
    /\ totalProjects' = chainCount
    /\ LET startBlock == currentStartBlock(latestBlock)
           acc == AccumulateBatch(queryFilter(startBlock, latestBlock), {}, <<>>)
       IN /\ queries' = <<<<startBlock, latestBlock>>>>
          /\ seenProjects' = acc.seen
          /\ events' = acc.kept
          /\ currentEndBlock' = startBlock - 1
    /\ discPc' = "scan"
    /\ UNCHANGED <<latestBlock, eventIndex, projectsMap>>
    /\ UNCHANGED notDisc

\* const totalProjects = (await withRpcRetry(() => registry.projectCount()))
\* if (totalProjects === 0) return [];  ...  let currentEndBlock = latestBlock
ProjectCount ==
    /\ discPc = "projectCount"
    /\ totalProjects' = chainCount
    /\ IF chainCount = 0
       THEN /\ discPc' = "returned"
            /\ UNCHANGED currentEndBlock
       ELSE /\ currentEndBlock' = latestBlock
            /\ discPc' = "scan"
    /\ UNCHANGED <<latestBlock, events, seenProjects, queries, eventIndex,
                   projectsMap>>
    /\ UNCHANGED notDisc

\* One iteration of the scan loop: a window query and its batch.
QueryWindow ==
    /\ discPc = "scan"
    /\ ScanContinues(currentEndBlock, seenProjects, totalProjects)
    /\ LET startBlock == currentStartBlock(currentEndBlock)
           acc == AccumulateBatch(queryFilter(startBlock, currentEndBlock),
                                  seenProjects, events)
       IN /\ queries' = Append(queries, <<startBlock, currentEndBlock>>)
          /\ seenProjects' = acc.seen
          /\ events' = acc.kept
          /\ currentEndBlock' = startBlock - 1
    /\ UNCHANGED <<discPc, latestBlock, totalProjects, eventIndex, projectsMap>>
    /\ UNCHANGED notDisc

\* The scan loop ends: sort, return to discoverProjects, enter its loop.
ScanEnds ==
    /\ discPc = "scan"
    /\ ~ScanContinues(currentEndBlock, seenProjects, totalProjects)
    /\ events' = sortByBlockNumber(events)
    /\ eventIndex' = 1
    /\ discPc' = IF events = <<>> THEN "returned" ELSE "pyusd"
    /\ UNCHANGED <<latestBlock, totalProjects, currentEndBlock, seenProjects,
                   queries, projectsMap>>
    /\ UNCHANGED notDisc

\* const pyusdAddress = await withRpcRetry(() => projectContract.pyusd());
\* projectsMap.set(...); then on to the next event not yet in the map.
ReadPyusd ==
    /\ discPc = "pyusd"
    /\ LET e == events[eventIndex]
           map == Append(projectsMap,
                         [projectAddress |-> e.project,
                          tokenAddress |-> e.token,
                          pyusdAddress |-> PYUSD])
           next == NextUnmapped(events, eventIndex + 1, map)
       IN /\ projectsMap' = map
          /\ eventIndex' = next
          /\ discPc' = IF next > Len(events) THEN "returned" ELSE "pyusd"
    /\ UNCHANGED <<latestBlock, totalProjects, currentEndBlock, events,
                   seenProjects, queries>>
    /\ UNCHANGED notDisc

\* Any of the reads throws out of withRpcRetry: discovery fails as a whole.
DiscoveryReadFails ==
    /\ discPc \in {"getBlockNumber", "projectCount", "pyusd"}
       \/ /\ discPc = "scan"
          /\ ScanContinues(currentEndBlock, seenProjects, totalProjects)
    /\ discPc' = "failed"
    /\ UNCHANGED <<latestBlock, totalProjects, currentEndBlock, events,
                   seenProjects, queries, eventIndex, projectsMap>>
    /\ UNCHANGED notDisc

DiscNext ==
    \/ GetBlockNumber
    \/ ProjectCount
    \/ QueryWindow
    \/ ScanEnds
    \/ ReadPyusd
    \/ DiscoveryReadFails

(***************************************************************************)
(* Metrics, matching and the rebalance decision (part_000:578-605,         *)
(* 721-785, 890-934).                                                      *)
(***************************************************************************)
calculateDeviation_NoFlip(currentPrice, targetPrice) ==
    IF targetPrice = 0 \/ currentPrice = targetPrice
    THEN [deviation |-> 0, deviationBps |-> 0, direction |-> "none"]
    ELSE LET deviation == IF currentPrice > targetPrice
                          THEN currentPrice - targetPrice
                          ELSE targetPrice - currentPrice
         IN [deviation |-> deviation,
             deviationBps |-> (deviation * BPS_DENOMINATOR) \div targetPrice,
             direction |-> "increase"]

calculateDeviation_RoundsUp(currentPrice, targetPrice) ==
    IF targetPrice = 0 \/ currentPrice = targetPrice
    THEN [deviation |-> 0, deviationBps |-> 0, direction |-> "none"]
    ELSE LET deviation == IF currentPrice > targetPrice
                          THEN currentPrice - targetPrice
                          ELSE targetPrice - currentPrice
         IN [deviation |-> deviation,
             deviationBps |-> (deviation * BPS_DENOMINATOR + targetPrice - 1)
                                 \div targetPrice,
             direction |-> IF currentPrice > targetPrice THEN "decrease"
                           ELSE "increase"]

\* const deviationBps = deviation.mul(10_000).div(targetPrice)
calculateDeviation(currentPrice, targetPrice) ==
    IF targetPrice = 0
    THEN [deviation |-> 0, deviationBps |-> 0, direction |-> "none"]
    ELSE IF currentPrice = targetPrice
    THEN [deviation |-> 0, deviationBps |-> 0, direction |-> "none"]
    ELSE LET deviation == IF currentPrice > targetPrice
                          THEN currentPrice - targetPrice
                          ELSE targetPrice - currentPrice
         IN [deviation |-> deviation,
             deviationBps |-> (deviation * BPS_DENOMINATOR) \div targetPrice,
             direction |-> IF currentPrice > targetPrice THEN "decrease"
                           ELSE "increase"]

\* What the chain reports for one project when fetchProjectMetrics reads it:
\* getTargetPoolPrice, whether getPool is nonzero, and the pool's price
\* (slot0 through computePoolPrice) and liquidity.  Prices are in units of
\* 1/10000 of the target, so a price of 9850 is 150 bps under the target.
\* The project of token 1 is seen at the threshold, just under it, on target
\* and without a pool; the other token's project 250 bps under its target.
\* Either is also seen 150 bps over its target and with a zero target.
ChainProjectStates(project) ==
    { [target |-> 10000, pool |-> TRUE,  price |-> 10150, liquidity |-> 500],
      [target |-> 0,     pool |-> TRUE,  price |-> 9850,  liquidity |-> 500] }
    \cup
    IF project.tokenAddress # 1
    THEN { [target |-> 10000, pool |-> TRUE, price |-> 9750, liquidity |-> 500] }
    ELSE { [target |-> 10000, pool |-> TRUE,  price |-> 9850,  liquidity |-> 500],
           [target |-> 10000, pool |-> TRUE,  price |-> 9851,  liquidity |-> 500],
           [target |-> 10000, pool |-> TRUE,  price |-> 10000, liquidity |-> 500],
           [target |-> 10000, pool |-> FALSE, price |-> 0,     liquidity |-> 0] }

fetchProjectMetrics_NoPoolOnTarget(project, chain) ==
    LET currentPoolPrice == IF chain.pool THEN chain.price ELSE chain.target
        poolLiquidity == IF chain.pool THEN chain.liquidity ELSE 0
        dev == calculateDeviation(currentPoolPrice, chain.target)
    IN [kind |-> "metric",
        project |-> project,
        hasPool |-> chain.pool,
        targetPoolPrice |-> chain.target,
        currentPoolPrice |-> currentPoolPrice,
        poolLiquidity |-> poolLiquidity,
        deviationBps |-> dev.deviationBps,
        direction |-> dev.direction,
        positions |-> <<>>]

\* fetchProjectMetrics once its reads have returned and the target is nonzero
fetchProjectMetrics(project, chain) ==
    LET currentPoolPrice == IF chain.pool THEN chain.price ELSE 0
        poolLiquidity == IF chain.pool THEN chain.liquidity ELSE 0
        dev == calculateDeviation(currentPoolPrice, chain.target)
    IN [kind |-> "metric",
        project |-> project,
        hasPool |-> chain.pool,
        targetPoolPrice |-> chain.target,
        currentPoolPrice |-> currentPoolPrice,
        poolLiquidity |-> poolLiquidity,
        deviationBps |-> dev.deviationBps,
        direction |-> dev.direction,
        positions |-> <<>>]

PairKey_FirstOnly(a, b) == <<Min(toLowerCase(a), toLowerCase(b)), 0>>

\* [a.toLowerCase(), b.toLowerCase()].sort().join(':')
PairKey(a, b) ==
    LET x == toLowerCase(a)
        y == toLowerCase(b)
    IN IF x <= y THEN <<x, y>> ELSE <<y, x>>

\* projectTokenPairs.get(key): Map.set keeps the last metric set for a key
\* (0 when the key is absent).
KeyOwner(ms, key) ==
    LET owners == { i \in DOMAIN ms :
                      PairKey(ms[i].project.tokenAddress,
                              ms[i].project.pyusdAddress) = key }
    IN IF owners = {} THEN 0
       ELSE CHOOSE i \in owners : \A j \in owners : j <= i

attachPositionsToProjects_EveryOwner(ms, positions) ==
    [ i \in DOMAIN ms |->
        [ ms[i] EXCEPT !.positions =
            SelectSeq(positions,
                      LAMBDA p : PairKey(p.token0, p.token1)
                                    = PairKey(ms[i].project.tokenAddress,
                                              ms[i].project.pyusdAddress)) ] ]

attachPositionsToProjects(ms, positions) ==
    [ i \in DOMAIN ms |->
        [ ms[i] EXCEPT !.positions =
            SelectSeq(positions,
                      LAMBDA p : KeyOwner(ms, PairKey(p.token0, p.token1)) = i) ] ]

shouldRebalance_Strict(metric) ==
    metric.direction # "none"
        /\ metric.deviationBps > DEFAULT_DEVIATION_THRESHOLD_BPS

shouldRebalance(metric) ==
    metric.direction # "none"
        /\ metric.deviationBps >= DEFAULT_DEVIATION_THRESHOLD_BPS

\* position.liquidity.mul(DEFAULT_REBALANCE_LIQUIDITY_BPS).div(10_000)
liquidityToUse(liquidity) ==
    (liquidity * DEFAULT_REBALANCE_LIQUIDITY_BPS) \div BPS_DENOMINATOR

SkipsPosition_ZeroShareOnly(position, direction) ==
    liquidityToUse(position.liquidity) = 0 /\ direction = "decrease"

\* The two `continue`s at the top of the position loop.
SkipsPosition(position, direction) ==
    \/ position.liquidity = 0
    \/ liquidityToUse(position.liquidity) = 0 /\ direction = "decrease"

\* liquidity: liquidityToUse.isZero() ? position.liquidity : liquidityToUse
decreaseLiquidityAmount(liquidity) ==
    IF liquidityToUse(liquidity) = 0 THEN liquidity
    ELSE liquidityToUse(liquidity)

needsApproval_ZeroAllowanceSkipped(balance, allowance) ==
    balance > 0 /\ 0 < allowance /\ allowance < balance

needsApproval_AtLeast(balance, allowance) ==
    balance > 0 /\ allowance <= balance

\* balance.gt(0) && allowance.lt(balance)
needsApproval(balance, allowance) == balance > 0 /\ allowance < balance

(***************************************************************************)
(* vincentAbility.execute (part_000:1006-1240).                            *)
(***************************************************************************)
ProjectTokenChoices == {1, 3}

\* discoverProjects' possible results: up to MaxProjects projects, distinct
\* addresses (1, 2, ... in creation order), each pairing a token with PYUSD.
ProjectLists ==
    UNION { { [i \in 1..n |-> [projectAddress |-> i,
                               tokenAddress |-> tokens[i],
                               pyusdAddress |-> PYUSD]] :
                tokens \in [1..n -> ProjectTokenChoices] } :
            n \in 0..MaxProjects }

\* The registries the ability is run against: the projects of one of the
\* lists above, the i-th created in block 6i - 5 (so that two projects lie in
\* different 10-block windows), the count equal to the number of events.
RegistryLatest == 6 * MaxProjects

RegistryOf(list) ==
    [events |-> [i \in DOMAIN list |->
                    [project |-> list[i].projectAddress,
                     token |-> list[i].tokenAddress,
                     blockNumber |-> 6 * i - 5]],
     latest |-> RegistryLatest,
     count |-> Len(list)]

Registries == { RegistryOf(list) : list \in ProjectLists }

\* The positions the wallet may hold: of the pair of token 1's project
\* (written in the other order and in mixed case) with no liquidity, with
\* liquidity whose 25% share rounds to 0, and with more; of the pair of
\* token 3's project; and of a pair no project has.
PositionChoices ==
    { [token0 |-> Upper(PYUSD), token1 |-> 1, liquidity |-> 0],
      [token0 |-> Upper(PYUSD), token1 |-> 1, liquidity |-> 3],
      [token0 |-> Upper(PYUSD), token1 |-> 1, liquidity |-> 4],
      [token0 |-> PYUSD, token1 |-> 3, liquidity |-> 4],
      [token0 |-> 1, token1 |-> 3, liquidity |-> 4] }

\* fetchOwnedPositions' possible results: up to MaxPositions positions with
\* token ids 1, 2, ... (tokenOfOwnerByIndex order).
PositionLists ==
    UNION { { [k \in 1..n |-> [tokenId |-> k,
                               token0 |-> ps[k].token0,
                               token1 |-> ps[k].token1,
                               liquidity |-> ps[k].liquidity]] :
                ps \in [1..n -> PositionChoices] } :
            n \in 0..MaxPositions }

\* What the wallet's balanceOf and allowance reads may return for a position's
\* two tokens: nothing to add, both allowances short, both exactly
\* sufficient, one token only held or only needing approval, and an
\* allowance above the balance.
WalletChoices ==
    { [balance0 |-> 0, balance1 |-> 0, allowance0 |-> 0, allowance1 |-> 0],
      [balance0 |-> 5, balance1 |-> 6, allowance0 |-> 0, allowance1 |-> 0],
      [balance0 |-> 5, balance1 |-> 5, allowance0 |-> 5, allowance1 |-> 5],
      [balance0 |-> 5, balance1 |-> 0, allowance0 |-> 4, allowance1 |-> 0],
      [balance0 |-> 5, balance1 |-> 6, allowance0 |-> 5, allowance1 |-> 4],
      [balance0 |-> 0, balance1 |-> 6, allowance0 |-> 3, allowance1 |-> 9] }

\* A read made through withRpcRetry throws to its caller: the error of the
\* attempt at which withRpcRetry rethrows (part_000:561-563).
ThrowsOutOfRetry(stage) ==
    \E error \in ErrorChoices, n \in 1..RPC_MAX_RETRIES :
        /\ ShouldRethrow(error, n)
        /\ readFailure' = [stage |-> stage, error |-> error, attempt |-> n]

\* A read awaited directly throws to its caller at its first failure.
ThrowsUnwrapped(stage) ==
    \E error \in ErrorChoices :
        readFailure' = [stage |-> stage, error |-> error, attempt |-> 1]

\* error.message.includes('registry address')
includesRegistryAddress(message) == message = "Invalid registry address"

executeCatch_ReportsActions(message) ==
    [kind |-> "fail",
     error |-> message,
     reason |-> IF includesRegistryAddress(message)
                THEN "INVALID_REGISTRY_ADDRESS" ELSE "PROVIDER_ERROR",
     actions |-> actions]

\* execute's catch block
executeCatch(message) ==
    [kind |-> "fail",
     error |-> message,
     reason |-> IF includesRegistryAddress(message)
                THEN "INVALID_REGISTRY_ADDRESS" ELSE "PROVIDER_ERROR"]

\* A throw anywhere inside execute's try block lands in its catch.
Throw(message) ==
    /\ pc' = "failed"
    /\ result' = executeCatch(message)

\* A contractCall request.  tokenId 0: none (accrueInterest); the amount
\* fields not used by a function are 0.
Call(name, projectAddress, tokenId, liquidity, amount0, amount1) ==
    [name |-> name, projectAddress |-> projectAddress, tokenId |-> tokenId,
     liquidity |-> liquidity, amount0 |-> amount0, amount1 |-> amount1,
     txHash |-> issued + 1]

\* recordAction({ projectAddress, tokenId, name, txHash })
ActionRecord(call, name) ==
    [projectAddress |-> call.projectAddress, tokenId |-> call.tokenId,
     name |-> name, txHash |-> call.txHash]

ExecInit ==
    /\ RetryIdle
    /\ DiscIdle
    /\ UnitIdle
    /\ EnumIdle
    /\ \E registry \in Registries :
          /\ chainEvents = registry.events
          /\ chainLatest = registry.latest
          /\ chainCount = registry.count
    /\ registryValid \in BOOLEAN
    /\ delegation \in [publicKey : BOOLEAN, ethAddress : BOOLEAN]
    /\ pc \in {"start", "precheck"}
    /\ projects = <<>>
    /\ metrics = <<>>
    /\ readsInFlight = {}
    /\ ownedPositions = <<>>
    /\ metricIndex = 0
    /\ positionIndex = 0
    /\ balances = NoBalances
    /\ callsInFlight = {}
    /\ issued = 0
    /\ actions = <<>>
    /\ walletReads = <<>>
    /\ readFailure = NoValue
    /\ settled = <<>>
    /\ result = NoValue

ValidateRegistry_Unchecked ==
    /\ pc = "start"
    /\ pc' = "network"
    /\ UNCHANGED <<registryValid, settled, readFailure, walletReads, delegation, projects,
                   metrics, readsInFlight, ownedPositions, metricIndex,
                   positionIndex, balances, callsInFlight, issued, actions,
                   result>>
    /\ UNCHANGED notExec

\* if (!ethers.utils.isAddress(registryAddress)) throw ...; createProvider
ValidateRegistry ==
    /\ pc = "start"
    /\ IF registryValid
       THEN pc' = "network" /\ UNCHANGED result
       ELSE Throw("Invalid registry address")
    /\ UNCHANGED <<registryValid, settled, readFailure, walletReads, delegation, projects, metrics, readsInFlight,
                   ownedPositions, metricIndex, positionIndex, balances,
                   callsInFlight, issued, actions>>
    /\ UNCHANGED notExec

\* const networkConfig = await discoverNetworkConfig(provider, rpcUrl)
\* and discoverProjects starts with fetchProjectCreationEvents' first read.
NetworkResolves ==
    /\ pc = "network"
    /\ pc' = "discover"
    /\ discPc' = "getBlockNumber"
    /\ UNCHANGED <<registryValid, settled, readFailure, walletReads, delegation, projects, metrics, readsInFlight,
                   ownedPositions, metricIndex, positionIndex, balances,
                   callsInFlight, issued, actions, result>>
    /\ UNCHANGED <<latestBlock, totalProjects, currentEndBlock, events,
                   seenProjects, queries, eventIndex, projectsMap>>
    /\ UNCHANGED <<retryVars, chainVars, unitVars, enumVars>>

\* discoverNetworkConfig throws: the chain identifier is not in NETWORK_CONFIG,
\* or provider.getNetwork(), awaited directly, threw; in both cases the rpc
\* url names no known network, so the catch rethrows.
NetworkFails ==
    /\ pc = "network"
    /\ \/ /\ Throw("Unsupported network")
          /\ UNCHANGED readFailure
       \/ /\ Throw("RPC read failed")
          /\ ThrowsUnwrapped("network")
    /\ UNCHANGED <<registryValid, settled, walletReads, delegation, projects, metrics, readsInFlight,
                   ownedPositions, metricIndex, positionIndex, balances,
                   callsInFlight, issued, actions>>
    /\ UNCHANGED notExec

\* const projects = await discoverProjects(...); then
\* Promise.all(projects.map(fetchProjectMetrics)) starts every project's reads.
DiscoveryReturns ==
    /\ pc = "discover"
    /\ discPc = "returned"
    /\ projects' = projectsMap
    /\ metrics' = [i \in DOMAIN projects' |-> NoValue]
    /\ readsInFlight' = { <<"metrics", i>> : i \in DOMAIN projects' }
    /\ pc' = "metrics"
    /\ UNCHANGED <<registryValid, settled, readFailure, walletReads, delegation, ownedPositions, metricIndex,
                   positionIndex, balances, callsInFlight, issued, actions,
                   result>>
    /\ UNCHANGED notExec

DiscoveryFails_Swallowed ==
    /\ pc = "discover"
    /\ discPc = "failed"
    /\ projects' = projectsMap
    /\ metrics' = [i \in DOMAIN projects' |-> NoValue]
    /\ readsInFlight' = { <<"metrics", i>> : i \in DOMAIN projects' }
    /\ pc' = "metrics"
    /\ UNCHANGED <<registryValid, settled, readFailure, walletReads, delegation, ownedPositions,
                   metricIndex, positionIndex, balances, callsInFlight, issued,
                   actions, result>>
    /\ UNCHANGED notExec

\* One of discovery's reads threw out of withRpcRetry.
DiscoveryFails ==
    /\ pc = "discover"
    /\ discPc = "failed"
    /\ Throw("RPC read failed")
    /\ ThrowsOutOfRetry("discovery")
    /\ UNCHANGED <<registryValid, settled, walletReads, delegation, projects, metrics, readsInFlight,
                   ownedPositions, metricIndex, positionIndex, balances,
                   callsInFlight, issued, actions>>
    /\ UNCHANGED notExec

MetricsReturn_CompletionOrder ==
    /\ pc = "metrics"
    /\ \E i \in DOMAIN metrics :
       \E chain \in ChainProjectStates(projects[i]) :
          /\ <<"metrics", i>> \in readsInFlight
          /\ readsInFlight' = readsInFlight \ { <<"metrics", i>> }
          /\ IF chain.target = 0
             THEN /\ Throw("Target pool price returned 0 from CornerstoneProject")
                  /\ UNCHANGED <<metrics, settled>>
             ELSE /\ metrics' = [metrics EXCEPT
                                   ![Len(settled) + 1] =
                                       fetchProjectMetrics(projects[i], chain)]
                  /\ settled' = Append(settled, i)
                  /\ UNCHANGED <<pc, result>>
    /\ UNCHANGED <<registryValid, readFailure, walletReads, delegation, projects,
                   ownedPositions, metricIndex, positionIndex, balances,
                   callsInFlight, issued, actions>>
    /\ UNCHANGED notExec

\* One project's fetchProjectMetrics settles: its metrics, or the throw for
\* a zero target price, which rejects the Promise.all at once.
MetricsReturn ==
    /\ pc = "metrics"
    /\ \E i \in DOMAIN metrics :
       \E chain \in ChainProjectStates(projects[i]) :
          /\ <<"metrics", i>> \in readsInFlight
          /\ readsInFlight' = readsInFlight \ { <<"metrics", i>> }
          /\ IF chain.target = 0
             THEN /\ Throw("Target pool price returned 0 from CornerstoneProject")
                  /\ UNCHANGED <<metrics, settled>>
             ELSE /\ metrics' = [metrics EXCEPT
                                   ![i] = fetchProjectMetrics(projects[i], chain)]
                  /\ settled' = Append(settled, i)
                  /\ UNCHANGED <<pc, result>>
    /\ UNCHANGED <<registryValid, readFailure, walletReads, delegation, projects, ownedPositions,
                   metricIndex, positionIndex, balances, callsInFlight, issued,
                   actions>>
    /\ UNCHANGED notExec

\* One of a project's metrics reads throws out of withRpcRetry.
MetricsFail ==
    /\ pc = "metrics"
    /\ \E i \in DOMAIN metrics :
          /\ <<"metrics", i>> \in readsInFlight
          /\ readsInFlight' = readsInFlight \ { <<"metrics", i>> }
    /\ Throw("RPC read failed")
    /\ ThrowsOutOfRetry("metrics")
    /\ UNCHANGED <<registryValid, settled, walletReads, delegation, projects, metrics, ownedPositions,
                   metricIndex, positionIndex, balances, callsInFlight, issued,
                   actions>>
    /\ UNCHANGED notExec

\* The Promise.all resolves; if (!pkpPublicKey || !pkpAddress) throw ...;
\* otherwise fetchOwnedPositions starts.
MetricsResolved ==
    /\ pc = "metrics"
    /\ readsInFlight = {}
    /\ IF delegation.publicKey /\ delegation.ethAddress
       THEN pc' = "positions" /\ UNCHANGED result
       ELSE Throw("Delegation context missing PKP information")
    /\ UNCHANGED <<registryValid, settled, readFailure, walletReads, delegation, projects, metrics, readsInFlight,
                   ownedPositions, metricIndex, positionIndex, balances,
                   callsInFlight, issued, actions>>
    /\ UNCHANGED notExec

\* const ownedPositions = await fetchOwnedPositions(...);
\* attachPositionsToProjects(metrics, ownedPositions); the project loop starts.
PositionsReturn ==
    /\ pc = "positions"
    /\ ownedPositions' \in PositionLists
    /\ metrics' = attachPositionsToProjects(metrics, ownedPositions')
    /\ metricIndex' = 1
    /\ pc' = "project"
    /\ UNCHANGED <<registryValid, settled, readFailure, walletReads, delegation, projects, readsInFlight,
                   positionIndex, balances, callsInFlight, issued, actions,
                   result>>
    /\ UNCHANGED notExec

PositionsFail ==
    /\ pc = "positions"
    /\ Throw("RPC read failed")
    /\ ThrowsOutOfRetry("positions")
    /\ UNCHANGED <<registryValid, settled, walletReads, delegation, projects, metrics, readsInFlight,
                   ownedPositions, metricIndex, positionIndex, balances,
                   callsInFlight, issued, actions>>
    /\ UNCHANGED notExec

summarizeMetric_Unfiltered(metric, acts) ==
    [projectAddress |-> metric.project.projectAddress,
     tokenAddress |-> metric.project.tokenAddress,
     pyusdAddress |-> metric.project.pyusdAddress,
     hasPool |-> metric.hasPool,
     targetPoolPrice |-> metric.targetPoolPrice,
     currentPoolPrice |-> metric.currentPoolPrice,
     poolLiquidity |-> metric.poolLiquidity,
     deviationBps |-> metric.deviationBps,
     direction |-> metric.direction,
     positionCount |-> Len(metric.positions),
     positionTokenIds |-> [k \in DOMAIN metric.positions |->
                              metric.positions[k].tokenId],
     actions |-> acts]

\* summarizeMetric(metric) extended with the project's action records
summarizeMetric(metric, acts) ==
    [projectAddress |-> metric.project.projectAddress,
     tokenAddress |-> metric.project.tokenAddress,
     pyusdAddress |-> metric.project.pyusdAddress,
     hasPool |-> metric.hasPool,
     targetPoolPrice |-> metric.targetPoolPrice,
     currentPoolPrice |-> metric.currentPoolPrice,
     poolLiquidity |-> metric.poolLiquidity,
     deviationBps |-> metric.deviationBps,
     direction |-> metric.direction,
     positionCount |-> Len(metric.positions),
     positionTokenIds |-> [k \in DOMAIN metric.positions |->
                              metric.positions[k].tokenId],
     actions |-> SelectSeq(acts, LAMBDA a :
                     a.projectAddress = metric.project.projectAddress)]

\* return succeed({ registryAddress, totalActions, ..., projects })
executeSucceed(ms, acts) ==
    [kind |-> "success",
     totalActions |-> Len(acts),
     projects |-> [i \in DOMAIN ms |-> summarizeMetric(ms[i], acts)]]

CurrentMetric == metrics[metricIndex]
CurrentPosition == CurrentMetric.positions[positionIndex]

\* The project loop is over: summary and succeed(...).
FinishRun ==
    /\ pc = "project"
    /\ metricIndex > Len(metrics)
    /\ result' = executeSucceed(metrics, actions)
    /\ pc' = "done"
    /\ UNCHANGED <<registryValid, settled, readFailure, walletReads, delegation, projects, metrics, readsInFlight,
                   ownedPositions, metricIndex, positionIndex, balances,
                   callsInFlight, issued, actions>>
    /\ UNCHANGED notExec

SkipProject_SameProject ==
    /\ pc = "project"
    /\ metricIndex <= Len(metrics)
    /\ ~shouldRebalance(CurrentMetric)
    /\ metricIndex' = metricIndex
    /\ UNCHANGED <<registryValid, settled, readFailure, walletReads, delegation, pc, projects, metrics,
                   readsInFlight, ownedPositions, positionIndex, balances,
                   callsInFlight, issued, actions, result>>
    /\ UNCHANGED notExec

\* if (!shouldRebalance(metric)) continue;
SkipProject ==
    /\ pc = "project"
    /\ metricIndex <= Len(metrics)
    /\ ~shouldRebalance(CurrentMetric)
    /\ metricIndex' = metricIndex + 1
    /\ UNCHANGED <<registryValid, settled, readFailure, walletReads, delegation, pc, projects, metrics,
                   readsInFlight, ownedPositions, positionIndex, balances,
                   callsInFlight, issued, actions, result>>
    /\ UNCHANGED notExec

IssueAccrue_NoAwait ==
    /\ pc = "project"
    /\ metricIndex <= Len(metrics)
    /\ shouldRebalance(CurrentMetric)
    /\ callsInFlight' = callsInFlight \cup
          { Call("accrueInterest", CurrentMetric.project.projectAddress,
                 0, 0, 0, 0) }
    /\ issued' = issued + 1
    /\ positionIndex' = 1
    /\ pc' = "position"
    /\ UNCHANGED <<registryValid, settled, readFailure, walletReads, delegation, projects, metrics, readsInFlight,
                   ownedPositions, metricIndex, balances, actions, result>>
    /\ UNCHANGED notExec

\* const accrueTx = await contractCall({ functionName: 'accrueInterest' })
IssueAccrue ==
    /\ pc = "project"
    /\ metricIndex <= Len(metrics)
    /\ shouldRebalance(CurrentMetric)
    /\ callsInFlight' = callsInFlight \cup
          { Call("accrueInterest", CurrentMetric.project.projectAddress,
                 0, 0, 0, 0) }
    /\ issued' = issued + 1
    /\ pc' = "accrue"
    /\ UNCHANGED <<registryValid, settled, readFailure, walletReads, delegation, projects, metrics, readsInFlight,
                   ownedPositions, metricIndex, positionIndex, balances,
                   actions, result>>
    /\ UNCHANGED notExec

\* The dispatcher returns accrueInterest's hash; recordAction; position loop.
AccrueReturns ==
    /\ pc = "accrue"
    /\ \E call \in callsInFlight :
          /\ call.name = "accrueInterest"
          /\ callsInFlight' = callsInFlight \ {call}
          /\ actions' = Append(actions, ActionRecord(call, "accrueInterest"))
    /\ positionIndex' = 1
    /\ pc' = "position"
    /\ UNCHANGED <<registryValid, settled, readFailure, walletReads, delegation, projects, metrics, readsInFlight,
                   ownedPositions, metricIndex, balances, issued, result>>
    /\ UNCHANGED notExec

\* The position loop of this project is over: next project.
ProjectDone ==
    /\ pc = "position"
    /\ positionIndex > Len(CurrentMetric.positions)
    /\ metricIndex' = metricIndex + 1
    /\ positionIndex' = 0
    /\ pc' = "project"
    /\ UNCHANGED <<registryValid, settled, readFailure, walletReads, delegation, projects, metrics, readsInFlight,
                   ownedPositions, balances, callsInFlight, issued, actions,
                   result>>
    /\ UNCHANGED notExec

\* if (position.liquidity.isZero()) continue;
\* if (liquidityToUse.isZero() && metric.direction === 'decrease') continue;
SkipPosition ==
    /\ pc = "position"
    /\ positionIndex <= Len(CurrentMetric.positions)
    /\ SkipsPosition(CurrentPosition, CurrentMetric.direction)
    /\ positionIndex' = positionIndex + 1
    /\ UNCHANGED <<registryValid, settled, readFailure, walletReads, delegation, pc, projects, metrics,
                   readsInFlight, ownedPositions, metricIndex, balances,
                   callsInFlight, issued, actions, result>>
    /\ UNCHANGED notExec

DecreaseCall ==
    Call("decreaseLiquidity", CurrentMetric.project.projectAddress,
         CurrentPosition.tokenId,
         decreaseLiquidityAmount(CurrentPosition.liquidity), 0, 0)

\* amount0Max, amount1Max: MAX_UINT128 (not a quantity the model computes with)
CollectCall ==
    Call("collect", CurrentMetric.project.projectAddress,
         CurrentPosition.tokenId, 0, 0, 0)

IssueDecrease_WithCollect ==
    /\ pc = "position"
    /\ positionIndex <= Len(CurrentMetric.positions)
    /\ ~SkipsPosition(CurrentPosition, CurrentMetric.direction)
    /\ CurrentMetric.direction = "decrease"
    /\ callsInFlight' = callsInFlight \cup {DecreaseCall, CollectCall}
    /\ issued' = issued + 2
    /\ pc' = "decrease"
    /\ UNCHANGED <<registryValid, settled, readFailure, walletReads, delegation, projects, metrics, readsInFlight,
                   ownedPositions, metricIndex, positionIndex, balances,
                   actions, result>>
    /\ UNCHANGED notExec

\* const decreaseTxHash = await contractCall({ functionName: 'decreaseLiquidity' })
IssueDecrease ==
    /\ pc = "position"
    /\ positionIndex <= Len(CurrentMetric.positions)
    /\ ~SkipsPosition(CurrentPosition, CurrentMetric.direction)
    /\ CurrentMetric.direction = "decrease"
    /\ callsInFlight' = callsInFlight \cup {DecreaseCall}
    /\ issued' = issued + 1
    /\ pc' = "decrease"
    /\ UNCHANGED <<registryValid, settled, readFailure, walletReads, delegation, projects, metrics, readsInFlight,
                   ownedPositions, metricIndex, positionIndex, balances,
                   actions, result>>
    /\ UNCHANGED notExec

DecreaseReturns_NoCollect ==
    /\ pc = "decrease"
    /\ \E call \in callsInFlight :
          /\ call.name = "decreaseLiquidity"
          /\ callsInFlight' = callsInFlight \ {call}
          /\ actions' = Append(actions, ActionRecord(call, "decreaseLiquidity"))
    /\ positionIndex' = positionIndex + 1
    /\ pc' = "position"
    /\ UNCHANGED <<registryValid, settled, readFailure, walletReads, delegation, projects, metrics, readsInFlight,
                   ownedPositions, metricIndex, balances, issued, result>>
    /\ UNCHANGED notExec

\* decreaseLiquidity's hash is returned; recordAction; then
\* const collectTxHash = await contractCall({ functionName: 'collect' })
DecreaseReturns ==
    /\ pc = "decrease"
    /\ \E call \in callsInFlight :
          /\ call.name = "decreaseLiquidity"
          /\ callsInFlight' = (callsInFlight \ {call}) \cup {CollectCall}
          /\ actions' = Append(actions, ActionRecord(call, "decreaseLiquidity"))
    /\ issued' = issued + 1
    /\ pc' = "collect"
    /\ UNCHANGED <<registryValid, settled, readFailure, walletReads, delegation, projects, metrics, readsInFlight,
                   ownedPositions, metricIndex, positionIndex, balances, result>>
    /\ UNCHANGED notExec

\* collect's hash is returned; recordAction; next position.
CollectReturns ==
    /\ pc = "collect"
    /\ \E call \in callsInFlight :
          /\ call.name = "collect"
          /\ callsInFlight' = callsInFlight \ {call}
          /\ actions' = Append(actions, ActionRecord(call, "collect"))
    /\ positionIndex' = positionIndex + 1
    /\ pc' = "position"
    /\ UNCHANGED <<registryValid, settled, readFailure, walletReads, delegation, projects, metrics, readsInFlight,
                   ownedPositions, metricIndex, balances, issued, result>>
    /\ UNCHANGED notExec

BalanceReads(tokenId) ==
    { <<"balance0", tokenId>>, <<"balance1", tokenId>>,
      <<"allowance0", tokenId>>, <<"allowance1", tokenId>> }

\* await Promise.all([balanceOf, balanceOf, allowance, allowance])
IssueBalanceReads ==
    /\ pc = "position"
    /\ positionIndex <= Len(CurrentMetric.positions)
    /\ ~SkipsPosition(CurrentPosition, CurrentMetric.direction)
    /\ CurrentMetric.direction = "increase"
    /\ readsInFlight' = BalanceReads(CurrentPosition.tokenId)
    /\ pc' = "balances"
    /\ UNCHANGED <<registryValid, settled, readFailure, walletReads, delegation, projects, metrics, ownedPositions,
                   metricIndex, positionIndex, balances, callsInFlight, issued,
                   actions, result>>
    /\ UNCHANGED notExec

NextIncreaseCall_NoApprovals(stage, b) == "increaseLiquidity"

\* Which contractCall the increase path issues next: after the reads
\* ("balances"), after approveToken0 ("approve0"), after approveToken1.
NextIncreaseCall(stage, b) ==
    IF stage = "balances" /\ needsApproval(b.balance0, b.allowance0)
    THEN "approveToken0"
    ELSE IF stage \in {"balances", "approve0"}
            /\ needsApproval(b.balance1, b.allowance1)
    THEN "approveToken1"
    ELSE "increaseLiquidity"

IncreasePathCall(name, b) ==
    Call(name, CurrentMetric.project.projectAddress, CurrentPosition.tokenId, 0,
         IF name = "approveToken1" THEN 0 ELSE b.balance0,
         IF name = "approveToken0" THEN 0 ELSE b.balance1)

PcOfCall(name) ==
    CASE name = "approveToken0" -> "approve0"
      [] name = "approveToken1" -> "approve1"
      [] name = "increaseLiquidity" -> "increase"

\* The four reads have returned.  if (balance0.isZero() && balance1.isZero())
\* continue; otherwise the first contractCall of the increase path.
BalancesReturn ==
    /\ pc = "balances"
    /\ readsInFlight' = {}
    /\ \E b \in WalletChoices :
          LET name == NextIncreaseCall("balances", b)
          IN /\ walletReads' = Append(walletReads,
                                      [tokenId |-> CurrentPosition.tokenId,
                                       balance0 |-> b.balance0,
                                       balance1 |-> b.balance1,
                                       allowance0 |-> b.allowance0,
                                       allowance1 |-> b.allowance1])
             /\ IF b.balance0 = 0 /\ b.balance1 = 0
                THEN /\ positionIndex' = positionIndex + 1
                     /\ pc' = "position"
                     /\ UNCHANGED <<balances, callsInFlight, issued>>
                ELSE /\ balances' = b
                     /\ callsInFlight' = callsInFlight
                                            \cup {IncreasePathCall(name, b)}
                     /\ issued' = issued + 1
                     /\ pc' = PcOfCall(name)
                     /\ UNCHANGED positionIndex
    /\ UNCHANGED <<registryValid, settled, readFailure, delegation, projects, metrics,
                   ownedPositions, metricIndex, actions, result>>
    /\ UNCHANGED notExec

\* One of the four reads throws (these reads are not wrapped in withRpcRetry).
BalancesFail ==
    /\ pc = "balances"
    /\ \E r \in readsInFlight : readsInFlight' = readsInFlight \ {r}
    /\ Throw("RPC read failed")
    /\ ThrowsUnwrapped("balances")
    /\ UNCHANGED <<registryValid, settled, walletReads, delegation, projects, metrics, ownedPositions,
                   metricIndex, positionIndex, balances, callsInFlight, issued,
                   actions>>
    /\ UNCHANGED notExec

\* An approval's hash is returned; recordAction; the next contractCall.
ApproveReturns ==
    /\ pc \in {"approve0", "approve1"}
    /\ \E call \in callsInFlight :
          LET name == NextIncreaseCall(pc, balances) IN
          /\ call.name = IF pc = "approve0" THEN "approveToken0" ELSE "approveToken1"
          /\ callsInFlight' = (callsInFlight \ {call})
                                 \cup {IncreasePathCall(name, balances)}
          /\ actions' = Append(actions, ActionRecord(call, call.name))
          /\ pc' = PcOfCall(name)
    /\ issued' = issued + 1
    /\ UNCHANGED <<registryValid, settled, readFailure, walletReads, delegation, projects, metrics, readsInFlight,
                   ownedPositions, metricIndex, positionIndex, balances, result>>
    /\ UNCHANGED notExec

\* increaseLiquidity's hash is returned; recordAction; next position.
IncreaseReturns ==
    /\ pc = "increase"
    /\ \E call \in callsInFlight :
          /\ call.name = "increaseLiquidity"
          /\ callsInFlight' = callsInFlight \ {call}
          /\ actions' = Append(actions, ActionRecord(call, "increaseLiquidity"))
    /\ positionIndex' = positionIndex + 1
    /\ balances' = NoBalances
    /\ pc' = "position"
    /\ UNCHANGED <<registryValid, settled, readFailure, walletReads, delegation, projects, metrics, readsInFlight,
                   ownedPositions, metricIndex, issued, result>>
    /\ UNCHANGED notExec

CallFails_Uncaught ==
    /\ pc \in {"accrue", "decrease", "collect", "approve0", "approve1", "increase"}
    /\ \E call \in callsInFlight : callsInFlight' = callsInFlight \ {call}
    /\ pc' = "failed"
    /\ UNCHANGED <<registryValid, settled, readFailure, walletReads, delegation, projects, metrics,
                   readsInFlight, ownedPositions, metricIndex, positionIndex,
                   balances, issued, actions, result>>
    /\ UNCHANGED notExec

CallFails_Skipped ==
    /\ pc \in {"accrue", "decrease", "collect", "approve0", "approve1", "increase"}
    /\ \E call \in callsInFlight : callsInFlight' = callsInFlight \ {call}
    /\ pc' = "position"
    /\ balances' = NoBalances
    /\ UNCHANGED <<registryValid, settled, readFailure, walletReads, delegation, projects, metrics,
                   readsInFlight, ownedPositions, metricIndex, positionIndex,
                   issued, actions, result>>
    /\ UNCHANGED notExec

\* The dispatcher throws instead of returning a hash.
CallFails ==
    /\ pc \in {"accrue", "decrease", "collect", "approve0", "approve1", "increase"}
    /\ \E call \in callsInFlight : callsInFlight' = callsInFlight \ {call}
    /\ Throw("contractCall failed")
    /\ UNCHANGED <<registryValid, settled, readFailure, walletReads, delegation, projects, metrics, readsInFlight,
                   ownedPositions, metricIndex, positionIndex, balances, issued,
                   actions>>
    /\ UNCHANGED notExec

(***************************************************************************)
(* vincentAbility.precheck (part_000:947-1004).  Its positions are named   *)
(* "precheck", "precheck:network", ..., "precheck:done", "precheck:failed".*)
(***************************************************************************)
\* error.message.includes('Target pool price')
includesTargetPoolPrice(message) ==
    message = "Target pool price returned 0 from CornerstoneProject"

\* precheck's catch block
precheckCatch(message) ==
    [kind |-> "fail",
     error |-> message,
     reason |-> IF includesTargetPoolPrice(message)
                THEN "NAV_TARGET_ZERO" ELSE "PROVIDER_ERROR"]

\* A throw anywhere inside precheck's try block lands in its catch.
PrecheckThrow(message) ==
    /\ pc' = "precheck:failed"
    /\ result' = precheckCatch(message)

\* return succeed({ registryAddress, projectCount, trackedPositions, ...,
\* projects: metrics.map(summarizeMetric) })
precheckSucceed(ms, owned) ==
    [kind |-> "success",
     projectCount |-> Len(ms),
     trackedPositions |-> Len(owned),
     projects |-> [i \in DOMAIN ms |->
                     LET summary == summarizeMetric(ms[i], <<>>)
                     IN [f \in DOMAIN summary \ {"actions"} |-> summary[f]]]]

\* if (!ethers.utils.isAddress(registryAddress)) return fail({...}), before
\* the try block; otherwise createProvider.
PrecheckValidate ==
    /\ pc = "precheck"
    /\ IF registryValid
       THEN pc' = "precheck:network" /\ UNCHANGED result
       ELSE /\ pc' = "precheck:failed"
            /\ result' = [kind |-> "fail",
                          error |-> "Invalid registry address",
                          reason |-> "INVALID_REGISTRY_ADDRESS"]
    /\ UNCHANGED <<registryValid, settled, readFailure, walletReads, delegation, projects, metrics,
                   readsInFlight, ownedPositions, metricIndex, positionIndex,
                   balances, callsInFlight, issued, actions>>
    /\ UNCHANGED notExec

\* const networkConfig = await discoverNetworkConfig(provider, rpcUrl);
\* discoverProjects starts.
PrecheckNetworkResolves ==
    /\ pc = "precheck:network"
    /\ pc' = "precheck:discover"
    /\ discPc' = "getBlockNumber"
    /\ UNCHANGED <<registryValid, settled, readFailure, walletReads, delegation, projects, metrics,
                   readsInFlight, ownedPositions, metricIndex, positionIndex,
                   balances, callsInFlight, issued, actions, result>>
    /\ UNCHANGED <<latestBlock, totalProjects, currentEndBlock, events,
                   seenProjects, queries, eventIndex, projectsMap>>
    /\ UNCHANGED <<retryVars, chainVars, unitVars, enumVars>>

PrecheckNetworkFails ==
    /\ pc = "precheck:network"
    /\ \/ /\ PrecheckThrow("Unsupported network")
          /\ UNCHANGED readFailure
       \/ /\ PrecheckThrow("RPC read failed")
          /\ ThrowsUnwrapped("network")
    /\ UNCHANGED <<registryValid, settled, walletReads, delegation, projects, metrics,
                   readsInFlight, ownedPositions, metricIndex, positionIndex,
                   balances, callsInFlight, issued, actions>>
    /\ UNCHANGED notExec

\* const projects = await discoverProjects(...); the Promise.all starts
\* every project's metrics reads.
PrecheckDiscoveryReturns ==
    /\ pc = "precheck:discover"
    /\ discPc = "returned"
    /\ projects' = projectsMap
    /\ metrics' = [i \in DOMAIN projects' |-> NoValue]
    /\ readsInFlight' = { <<"metrics", i>> : i \in DOMAIN projects' }
    /\ pc' = "precheck:metrics"
    /\ UNCHANGED <<registryValid, settled, readFailure, walletReads, delegation, ownedPositions,
                   metricIndex, positionIndex, balances, callsInFlight, issued,
                   actions, result>>
    /\ UNCHANGED notExec

PrecheckDiscoveryFails ==
    /\ pc = "precheck:discover"
    /\ discPc = "failed"
    /\ PrecheckThrow("RPC read failed")
    /\ ThrowsOutOfRetry("discovery")
    /\ UNCHANGED <<registryValid, settled, walletReads, delegation, projects, metrics,
                   readsInFlight, ownedPositions, metricIndex, positionIndex,
                   balances, callsInFlight, issued, actions>>
    /\ UNCHANGED notExec

\* One project's fetchProjectMetrics settles: its metrics, or the throw for
\* a zero target price.
PrecheckMetricsReturn ==
    /\ pc = "precheck:metrics"
    /\ \E i \in DOMAIN metrics :
       \E chain \in ChainProjectStates(projects[i]) :
          /\ <<"metrics", i>> \in readsInFlight
          /\ readsInFlight' = readsInFlight \ { <<"metrics", i>> }
          /\ IF chain.target = 0
             THEN /\ PrecheckThrow(
                        "Target pool price returned 0 from CornerstoneProject")
                  /\ UNCHANGED <<metrics, settled>>
             ELSE /\ metrics' = [metrics EXCEPT
                                   ![i] = fetchProjectMetrics(projects[i], chain)]
                  /\ settled' = Append(settled, i)
                  /\ UNCHANGED <<pc, result>>
    /\ UNCHANGED <<registryValid, readFailure, walletReads, delegation, projects,
                   ownedPositions, metricIndex, positionIndex, balances,
                   callsInFlight, issued, actions>>
    /\ UNCHANGED notExec

PrecheckMetricsFail ==
    /\ pc = "precheck:metrics"
    /\ \E i \in DOMAIN metrics :
          /\ <<"metrics", i>> \in readsInFlight
          /\ readsInFlight' = readsInFlight \ { <<"metrics", i>> }
    /\ PrecheckThrow("RPC read failed")
    /\ ThrowsOutOfRetry("metrics")
    /\ UNCHANGED <<registryValid, settled, walletReads, delegation, projects, metrics,
                   ownedPositions, metricIndex, positionIndex, balances,
                   callsInFlight, issued, actions>>
    /\ UNCHANGED notExec

PrecheckMetricsResolved_AlwaysReads ==
    /\ pc = "precheck:metrics"
    /\ readsInFlight = {}
    /\ pc' = "precheck:positions"
    /\ UNCHANGED <<metrics, result>>
    /\ UNCHANGED <<registryValid, settled, readFailure, walletReads, delegation, projects,
                   readsInFlight, ownedPositions, metricIndex, positionIndex,
                   balances, callsInFlight, issued, actions>>
    /\ UNCHANGED notExec

\* The Promise.all resolves.  if (pkpAddress) fetchOwnedPositions starts;
\* otherwise ownedPositions stays [], attachPositionsToProjects, succeed.
PrecheckMetricsResolved ==
    /\ pc = "precheck:metrics"
    /\ readsInFlight = {}
    /\ IF delegation.ethAddress
       THEN /\ pc' = "precheck:positions"
            /\ UNCHANGED <<metrics, result>>
       ELSE /\ metrics' = attachPositionsToProjects(metrics, <<>>)
            /\ result' = precheckSucceed(metrics', <<>>)
            /\ pc' = "precheck:done"
    /\ UNCHANGED <<registryValid, settled, readFailure, walletReads, delegation, projects,
                   readsInFlight, ownedPositions, metricIndex, positionIndex,
                   balances, callsInFlight, issued, actions>>
    /\ UNCHANGED notExec

\* ownedPositions = await fetchOwnedPositions(...);
\* attachPositionsToProjects(metrics, ownedPositions); return succeed(...)
PrecheckPositionsReturn ==
    /\ pc = "precheck:positions"
    /\ ownedPositions' \in PositionLists
    /\ metrics' = attachPositionsToProjects(metrics, ownedPositions')
    /\ result' = precheckSucceed(metrics', ownedPositions')
    /\ pc' = "precheck:done"
    /\ UNCHANGED <<registryValid, settled, readFailure, walletReads, delegation, projects,
                   readsInFlight, metricIndex, positionIndex, balances,
                   callsInFlight, issued, actions>>
    /\ UNCHANGED notExec

PrecheckPositionsFail ==
    /\ pc = "precheck:positions"
    /\ PrecheckThrow("RPC read failed")
    /\ ThrowsOutOfRetry("positions")
    /\ UNCHANGED <<registryValid, settled, walletReads, delegation, projects, metrics,
                   readsInFlight, ownedPositions, metricIndex, positionIndex,
                   balances, callsInFlight, issued, actions>>
    /\ UNCHANGED notExec

(***************************************************************************)
(* One run of either handler.                                              *)
(***************************************************************************)
Next ==
    \/ PrecheckValidate
    \/ PrecheckNetworkResolves
    \/ PrecheckNetworkFails
    \/ PrecheckDiscoveryReturns
    \/ PrecheckDiscoveryFails
    \/ PrecheckMetricsReturn
    \/ PrecheckMetricsFail
    \/ PrecheckMetricsResolved
    \/ PrecheckPositionsReturn
    \/ PrecheckPositionsFail
    \/ ValidateRegistry
    \/ NetworkResolves
    \/ NetworkFails
    \/ GetBlockNumber
    \/ ProjectCount
    \/ QueryWindow
    \/ ScanEnds
    \/ ReadPyusd
    \/ DiscoveryReadFails
    \/ DiscoveryReturns
    \/ DiscoveryFails
    \/ MetricsReturn
    \/ MetricsFail
    \/ MetricsResolved
    \/ PositionsReturn
    \/ PositionsFail
    \/ FinishRun
    \/ SkipProject
    \/ IssueAccrue
    \/ AccrueReturns
    \/ ProjectDone
    \/ SkipPosition
    \/ IssueDecrease
    \/ DecreaseReturns
    \/ CollectReturns
    \/ IssueBalanceReads
    \/ BalancesReturn
    \/ BalancesFail
    \/ ApproveReturns
    \/ IncreaseReturns
    \/ CallFails

(***************************************************************************)
(* Project discovery against a registry that keeps recording projects      *)
(* while discovery runs (part_000:630-719).                                *)
(***************************************************************************)
\* The registry starts consistent: its count is the number of its events.
DiscLiveInit ==
    /\ RetryIdle
    /\ ExecIdle
    /\ UnitIdle
    /\ EnumIdle
    /\ chainLatest \in 0..(MaxBlock - 1)
    /\ chainEvents \in Histories(chainLatest)
    /\ chainCount = Len(chainEvents)
    /\ discPc = "getBlockNumber"
    /\ latestBlock = 0
    /\ totalProjects = 0
    /\ currentEndBlock = 0
    /\ events = <<>>
    /\ seenProjects = {}
    /\ queries = <<>>
    /\ eventIndex = 0
    /\ projectsMap = <<>>

\* Another transaction creates a project: a new block holds its
\* ProjectCreated event and the registry's projectCount grows by one.
\* Discovery awaits each of its reads, so this can happen between any two.
ProjectCreatedOnChain ==
    /\ discPc \in {"getBlockNumber", "projectCount", "scan", "pyusd"}
    /\ Len(chainEvents) <= MaxEvents
    /\ chainLatest < MaxBlock
    /\ chainLatest' = chainLatest + 1
    /\ chainEvents' = Append(chainEvents,
                             [project |-> Len(chainEvents) + 1,
                              token |-> Len(chainEvents) + 1,
                              blockNumber |-> chainLatest + 1])
    /\ chainCount' = chainCount + 1
    /\ UNCHANGED discVars
    /\ UNCHANGED <<retryVars, execVars, unitVars, enumVars>>

DiscLiveNext ==
    \/ GetBlockNumber
    \/ ProjectCount
    \/ QueryWindow
    \/ ScanEnds
    \/ ReadPyusd
    \/ DiscoveryReadFails
    \/ ProjectCreatedOnChain

(***************************************************************************)
(* calculateDeviation called on a pair of prices and on the swapped pair   *)
(* (part_000:578-605).                                                     *)
(***************************************************************************)
DeviationInit ==
    /\ RetryIdle
    /\ EnumIdle
    /\ ChainIdle
    /\ DiscIdle
    /\ ExecIdle
    /\ unitPc = "call"
    /\ unitInput \in [currentPrice : 0..MaxPrice, targetPrice : 0..MaxPrice]
    /\ unitOutput = <<>>

\* calculateDeviation(currentPrice, targetPrice)
CallCalculateDeviation ==
    /\ unitPc = "call"
    /\ unitOutput' = <<calculateDeviation(unitInput.currentPrice,
                                          unitInput.targetPrice)>>
    /\ unitPc' = "swapped"
    /\ UNCHANGED unitInput
    /\ UNCHANGED notUnit

\* calculateDeviation(targetPrice, currentPrice): the same prices swapped
CallCalculateDeviationSwapped ==
    /\ unitPc = "swapped"
    /\ unitOutput' = Append(unitOutput,
                            calculateDeviation(unitInput.targetPrice,
                                               unitInput.currentPrice))
    /\ unitPc' = "returned"
    /\ UNCHANGED unitInput
    /\ UNCHANGED notUnit

DeviationNext == CallCalculateDeviation \/ CallCalculateDeviationSwapped

(***************************************************************************)
(* attachPositionsToProjects called on one project and one position        *)
(* (part_000:890-912).                                                     *)
(***************************************************************************)
\* Every address in both of its letter cases.
Addresses == 1..(2 * NumTokens)

MatchingInit ==
    /\ RetryIdle
    /\ EnumIdle
    /\ ChainIdle
    /\ DiscIdle
    /\ ExecIdle
    /\ unitPc = "call"
    /\ unitInput \in [tokenAddress : Addresses, pyusdAddress : Addresses,
                       token0 : Addresses, token1 : Addresses]
    /\ unitOutput = <<>>

\* attachPositionsToProjects(metrics, positions) with one metric, whose
\* positions list is empty, and one position.
CallAttachPositionsToProjects ==
    /\ unitPc = "call"
    /\ unitOutput' =
          attachPositionsToProjects(
              << [project |-> [projectAddress |-> 1,
                               tokenAddress |-> unitInput.tokenAddress,
                               pyusdAddress |-> unitInput.pyusdAddress],
                  positions |-> <<>>] >>,
              << [tokenId |-> 1, token0 |-> unitInput.token0,
                  token1 |-> unitInput.token1, liquidity |-> 4] >>)
    /\ unitPc' = "returned"
    /\ UNCHANGED unitInput
    /\ UNCHANGED notUnit

MatchingNext == CallAttachPositionsToProjects

(***************************************************************************)
(* fetchOwnedPositions (part_000:787-828) against a position manager whose *)
(* owner may receive and give away positions while the reads run.          *)
(***************************************************************************)
\* The owner's holdings: distinct token ids, by owner index.
HoldingsChoices ==
    UNION { { f \in [1..n -> 1..MaxOwned] :
                \A i, j \in 1..n : i # j => f[i] # f[j] } :
            n \in 0..MaxOwned }

\* positions.push({ tokenId, token0: position[2], token1: position[3], ...,
\* liquidity: position[7] }) for what positions(tokenId) returns.
PositionInfo(id) ==
    [tokenId |-> id, token0 |-> PYUSD, token1 |-> 1, liquidity |-> 4 * id]

EnumInit ==
    /\ RetryIdle
    /\ ChainIdle
    /\ DiscIdle
    /\ ExecIdle
    /\ UnitIdle
    /\ ownerTokens \in HoldingsChoices
    /\ ownedPc = "balanceOf"
    /\ ownedCount = 0
    /\ ownedIndex = 0
    /\ ownedTokenId = 0
    /\ ownedList = <<>>
    /\ ownedReads = <<>>
    /\ ownedResult = NoValue

\* const count = (await withRpcRetry(() => balanceOf(ownerAddress))).toNumber();
\* const positions = []; for (let index = 0; index < count; ...)
ReadBalanceOf ==
    /\ ownedPc = "balanceOf"
    /\ ownedCount' = Len(ownerTokens)
    /\ ownedReads' = Append(ownedReads, <<"balanceOf", 0>>)
    /\ IF Len(ownerTokens) = 0
       THEN /\ ownedPc' = "returned"
            /\ ownedResult' = [kind |-> "value", positions |-> ownedList]
       ELSE /\ ownedPc' = "tokenOfOwnerByIndex"
            /\ UNCHANGED ownedResult
    /\ UNCHANGED <<ownerTokens, ownedIndex, ownedTokenId, ownedList>>
    /\ UNCHANGED notEnum

ReadTokenOfOwnerByIndex_StopsAtRevert ==
    /\ ownedPc = "tokenOfOwnerByIndex"
    /\ ownedReads' = Append(ownedReads, <<"tokenOfOwnerByIndex", ownedIndex>>)
    /\ IF ownedIndex < Len(ownerTokens)
       THEN /\ ownedTokenId' = ownerTokens[ownedIndex + 1]
            /\ ownedPc' = "positions"
            /\ UNCHANGED ownedResult
       ELSE /\ ownedPc' = "returned"
            /\ ownedResult' = [kind |-> "value", positions |-> ownedList]
            /\ UNCHANGED ownedTokenId
    /\ UNCHANGED <<ownerTokens, ownedCount, ownedIndex, ownedList>>
    /\ UNCHANGED notEnum

\* const tokenId = await withRpcRetry(() => tokenOfOwnerByIndex(owner, index));
\* the call reverts, and withRpcRetry rethrows, when the owner no longer
\* holds that many tokens.
ReadTokenOfOwnerByIndex ==
    /\ ownedPc = "tokenOfOwnerByIndex"
    /\ ownedReads' = Append(ownedReads, <<"tokenOfOwnerByIndex", ownedIndex>>)
    /\ IF ownedIndex < Len(ownerTokens)
       THEN /\ ownedTokenId' = ownerTokens[ownedIndex + 1]
            /\ ownedPc' = "positions"
            /\ UNCHANGED ownedResult
       ELSE /\ ownedPc' = "failed"
            /\ ownedResult' = [kind |-> "thrown"]
            /\ UNCHANGED ownedTokenId
    /\ UNCHANGED <<ownerTokens, ownedCount, ownedIndex, ownedList>>
    /\ UNCHANGED notEnum

\* const position = await withRpcRetry(() => positions(tokenId));
\* positions.push({...}); index += 1; the loop test; return positions.
ReadPositions ==
    /\ ownedPc = "positions"
    /\ ownedReads' = Append(ownedReads, <<"positions", ownedTokenId>>)
    /\ ownedList' = Append(ownedList, PositionInfo(ownedTokenId))
    /\ ownedIndex' = ownedIndex + 1
    /\ IF ownedIndex + 1 < ownedCount
       THEN /\ ownedPc' = "tokenOfOwnerByIndex"
            /\ UNCHANGED ownedResult
       ELSE /\ ownedPc' = "returned"
            /\ ownedResult' = [kind |-> "value", positions |-> ownedList']
    /\ UNCHANGED <<ownerTokens, ownedCount, ownedTokenId>>
    /\ UNCHANGED notEnum

\* One of the reads throws out of withRpcRetry.
OwnedReadFails ==
    /\ ownedPc \in {"balanceOf", "tokenOfOwnerByIndex", "positions"}
    /\ ownedPc' = "failed"
    /\ ownedResult' = [kind |-> "thrown"]
    /\ UNCHANGED <<ownerTokens, ownedCount, ownedIndex, ownedTokenId,
                   ownedList, ownedReads>>
    /\ UNCHANGED notEnum

\* Other transactions change what the owner holds while the reads run.
HoldingsChange ==
    /\ ownedPc \in {"balanceOf", "tokenOfOwnerByIndex", "positions"}
    /\ ownerTokens' \in HoldingsChoices \ {ownerTokens}
    /\ UNCHANGED <<ownedPc, ownedCount, ownedIndex, ownedTokenId, ownedList,
                   ownedReads, ownedResult>>
    /\ UNCHANGED notEnum

EnumNext ==
    \/ ReadBalanceOf
    \/ ReadTokenOfOwnerByIndex
    \/ ReadPositions
    \/ OwnedReadFails
    \/ HoldingsChange

(***************************************************************************)
(* discoverNetworkConfig (part_000:412-421, 501-514, 607-628) called on    *)
(* one outcome of provider.getNetwork() and one rpc url.                   *)
(***************************************************************************)
\* const NETWORK_CONFIG: Record<number, NetworkConfig>
NETWORK_CONFIG ==
    [chainId \in {1, 11155111} |->
        IF chainId = 1
        THEN [chainId |-> 1, positionManager |-> "0xC364"]
        ELSE [chainId |-> 11155111, positionManager |-> "0x1238"]]

\* An rpc url is the sequence of its parts; <<>> is an absent or empty url.
UrlParts == {"sepolia", "SEPOLIA", "mainnet", "Mainnet", "infura", "localhost"}

UrlChoices ==
    UNION { [1..n -> UrlParts] : n \in 0..MaxUrlParts }

\* What provider.getNetwork() does: it throws, or reports a chain id.
LookupChoices ==
    ErrorChoices
       \cup { [kind |-> "network", chainId |-> id] :
                 id \in {1, 11155111, 8453, 175188, 31337} }

\* rpcUrl.toLowerCase(), part by part
urlToLowerCase(rpcUrl) ==
    [i \in DOMAIN rpcUrl |->
        CASE rpcUrl[i] = "SEPOLIA" -> "sepolia"
          [] rpcUrl[i] = "Mainnet" -> "mainnet"
          [] OTHER -> rpcUrl[i]]

\* lowered.includes(text)
includes(lowered, text) == \E i \in DOMAIN lowered : lowered[i] = text

inferChainIdFromRpc_CaseSensitive(rpcUrl) ==
    IF rpcUrl = <<>> THEN 0
    ELSE IF includes(rpcUrl, "sepolia") THEN 11155111
    ELSE IF includes(rpcUrl, "mainnet") THEN 1
    ELSE 0

\* inferChainIdFromRpc: 0 stands for undefined
inferChainIdFromRpc(rpcUrl) ==
    IF rpcUrl = <<>> THEN 0
    ELSE LET lowered == urlToLowerCase(rpcUrl)
         IN IF includes(lowered, "sepolia") THEN 11155111
            ELSE IF includes(lowered, "mainnet") THEN 1
            ELSE 0

\* discoverNetworkConfig: the try block returns the configuration of the
\* reported chain or throws; the catch returns the configuration of the
\* inferred chain or rethrows what it caught.
discoverNetworkConfig(lookup, rpcUrl) ==
    LET caught == IF lookup.kind = "network"
                  THEN [kind |-> "error", obj |-> TRUE, status |-> 0,
                        code |-> "", message |-> "Unsupported network"]
                  ELSE lookup
        fallbackChainId == inferChainIdFromRpc(rpcUrl)
    IN IF lookup.kind = "network" /\ lookup.chainId \in DOMAIN NETWORK_CONFIG
       THEN [kind |-> "config", config |-> NETWORK_CONFIG[lookup.chainId]]
       ELSE IF fallbackChainId # 0 /\ fallbackChainId \in DOMAIN NETWORK_CONFIG
       THEN [kind |-> "config", config |-> NETWORK_CONFIG[fallbackChainId]]
       ELSE [kind |-> "thrown", error |-> caught]

NetworkInit ==
    /\ RetryIdle
    /\ ChainIdle
    /\ DiscIdle
    /\ ExecIdle
    /\ EnumIdle
    /\ unitPc = "call"
    /\ unitInput \in [lookup : LookupChoices, rpcUrl : UrlChoices]
    /\ unitOutput = NoValue

\* await discoverNetworkConfig(provider, rpcUrl)
CallDiscoverNetworkConfig ==
    /\ unitPc = "call"
    /\ unitOutput' = discoverNetworkConfig(unitInput.lookup, unitInput.rpcUrl)
    /\ unitPc' = "returned"
    /\ UNCHANGED unitInput
    /\ UNCHANGED notUnit

NetworkNext == CallDiscoverNetworkConfig

(***************************************************************************)
(* The specifications.                                                     *)
(***************************************************************************)
SpecRetry == RetryInit /\ [][RetryNext]_vars

SpecDiscovery == DiscInit /\ [][DiscNext]_vars

\* The scan as it is scheduled: an awaited read settles (with a value or a
\* throw) and the async function then runs on to its next await.
SpecDiscoveryFair == DiscInit /\ [][DiscNext]_vars /\ WF_vars(DiscNext)

SpecDiscoveryLive == DiscLiveInit /\ [][DiscLiveNext]_vars

SpecDeviation == DeviationInit /\ [][DeviationNext]_vars

SpecMatching == MatchingInit /\ [][MatchingNext]_vars

SpecPositions == EnumInit /\ [][EnumNext]_vars

SpecNetwork == NetworkInit /\ [][NetworkNext]_vars

Spec == ExecInit /\ [][Next]_vars

\* A run as it is scheduled: every awaited read or dispatcher call settles
\* (with a value or a throw), and the handler then runs on to its next await.
SpecFair == ExecInit /\ [][Next]_vars /\ WF_vars(Next)

(***************************************************************************)
(* Claims about withRpcRetry, checked under SpecRetry.                     *)
(***************************************************************************)
RetryTerminated == retryPc \in {"returned", "thrown"}

TwiceRetryableThenSuccess ==
    /\ operationScript[1].kind = "error" /\ isRetryableRpcError(operationScript[1])
    /\ operationScript[2].kind = "error" /\ isRetryableRpcError(operationScript[2])
    /\ operationScript[3].kind = "value"

\* C8: an operation that fails twice with a retryable error and succeeds on
\* the third attempt is invoked at most three times, only ever delayed by
\* 1000 ms and then 2000 ms, and once withRpcRetry has ended it has returned
\* the third attempt's value after exactly three invocations and exactly the
\* two delays <<1000, 2000>>.
C8_TwiceRetryableThenSuccess ==
    TwiceRetryableThenSuccess =>
        /\ invocations <= 3
        /\ Len(delays) <= 2
        /\ delays = SubSeq(<<1000, 2000>>, 1, Len(delays))
        /\ retryPc # "thrown"
        /\ RetryTerminated =>
              /\ retryPc = "returned"
              /\ retryResult = operationScript[3]
              /\ invocations = 3
              /\ delays = <<1000, 2000>>

C8_Witness ==
    /\ TwiceRetryableThenSuccess
    /\ retryPc = "returned"
    /\ invocations = 3
    /\ Len(delays) = 2

\* C9: once an invocation of the operation has failed with a non-retryable
\* error (whichever attempt it was), withRpcRetry throws that very error: the
\* operation is not invoked again and no delay follows the failure (the
\* delays performed are only those of the earlier, retryable failures).
C9_NonRetryablePropagatesAtOnce ==
    \A k \in 1..invocations :
        ( /\ operationScript[k].kind = "error"
          /\ ~isRetryableRpcError(operationScript[k])
          /\ (k < invocations \/ retryPc # "operation") ) =>
            /\ invocations = k
            /\ retryPc = "thrown"
            /\ retryResult = operationScript[k]
            /\ Len(delays) = k - 1

C9_Witness ==
    /\ invocations = 2
    /\ retryPc = "thrown"
    /\ operationScript[2].kind = "error"
    /\ ~isRetryableRpcError(operationScript[2])
    /\ Len(delays) = 1

\* The first three invocations all fail with a retryable error.
ThreeRetryableFailures ==
    \A k \in 1..RPC_MAX_RETRIES :
        /\ operationScript[k].kind = "error"
        /\ isRetryableRpcError(operationScript[k])

\* C26: whatever the operation's outcomes are, withRpcRetry invokes it at
\* most three times and delays at most twice, once between two invocations;
\* when the first three invocations all fail with retryable errors, it never
\* returns, the only delays are 1000 ms then 2000 ms, and the third failure
\* is followed at once by the throw of the third attempt's error (three
\* invocations, exactly the two delays, none after the third failure).
C26_AtMostThreeInvocations ==
    /\ invocations <= RPC_MAX_RETRIES
    /\ attempt = invocations
    /\ Len(delays) <= RPC_MAX_RETRIES - 1
    /\ Len(delays) \in {invocations - 1, invocations}
    /\ Len(delays) = invocations => retryPc = "delay"
    /\ ThreeRetryableFailures =>
          /\ retryPc # "returned"
          /\ delays = SubSeq(<<RPC_RETRY_BASE_DELAY_MS * 1,
                               RPC_RETRY_BASE_DELAY_MS * 2>>, 1, Len(delays))
          /\ (invocations = RPC_MAX_RETRIES /\ retryPc # "operation") =>
                /\ retryPc = "thrown"
                /\ retryResult = operationScript[RPC_MAX_RETRIES]
                /\ delays = <<RPC_RETRY_BASE_DELAY_MS * 1,
                              RPC_RETRY_BASE_DELAY_MS * 2>>
          /\ RetryTerminated => invocations = RPC_MAX_RETRIES

\* Three retryable failures, the third of them a different error from the
\* first two, and withRpcRetry has thrown.
C26_Witness ==
    /\ ThreeRetryableFailures
    /\ operationScript[3] # operationScript[2]
    /\ operationScript[3] # operationScript[1]
    /\ retryPc = "thrown"
    /\ retryResult = operationScript[3]
    /\ invocations = 3
    /\ delays = <<1000, 2000>>

\* What the classification is stated to be: an object with a status of at
\* least 500, or with one of the two codes.
StatedRetryable(error) ==
    /\ error.obj
    /\ \/ error.status >= 500
       \/ error.code \in {"SERVER_ERROR", "NETWORK_ERROR"}

\* The k-th invocation failed and withRpcRetry has classified its error.
Classified(k) ==
    /\ operationScript[k].kind = "error"
    /\ k < invocations \/ retryPc \in {"delay", "thrown"}

\* C27: every failure withRpcRetry went on from (a delay, a further attempt)
\* is an object with status >= 500 or code SERVER_ERROR or NETWORK_ERROR, and
\* every failure below the attempt ceiling that it threw at once is not: a
\* non-object, or an object whose status is absent or below 500 and whose
\* code is absent or another code.
C27_RetryableClassification ==
    \A k \in 1..invocations :
        Classified(k) =>
            /\ isRetryableRpcError(operationScript[k])
                  = StatedRetryable(operationScript[k])
            /\ (k < invocations \/ retryPc = "delay")
                  => StatedRetryable(operationScript[k])
            /\ (k = invocations /\ retryPc = "thrown" /\ k < RPC_MAX_RETRIES)
                  => ~StatedRetryable(operationScript[k])

\* A failure that carries code NETWORK_ERROR next to a status below 500 was
\* retried, and the next failure, status 499 without a code, was thrown.
C27_Witness ==
    /\ invocations = 2
    /\ retryPc = "thrown"
    /\ operationScript[1].kind = "error"
    /\ operationScript[1].code = "NETWORK_ERROR"
    /\ operationScript[1].status = 404
    /\ operationScript[2].kind = "error"
    /\ operationScript[2].status = 499
    /\ operationScript[2].code = ""
    /\ delays = <<1000>>

(***************************************************************************)
(* Claims about project discovery, checked under SpecDiscovery.            *)
(***************************************************************************)
\* The block in which the registry recorded the creation of project p.
CreationBlock(p) ==
    (CHOOSE e \in Range(chainEvents) : e.project = p).blockNumber

\* C10: when the registry's count equals the number N of creation events
\* (all of distinct projects, anywhere in [0, latest]), the list discovery
\* returns holds exactly those N projects, each once, by ascending creation
\* block, wherever the events lie relative to the 10-block windows.
C10_DiscoveryExactInCreationOrder ==
    (discPc = "returned" /\ chainCount = Len(chainEvents)) =>
        /\ Len(projectsMap) = Len(chainEvents)
        /\ { projectsMap[i].projectAddress : i \in DOMAIN projectsMap }
              = { e.project : e \in Range(chainEvents) }
        /\ \A i, j \in DOMAIN projectsMap :
              i < j =>
                 /\ projectsMap[i].projectAddress # projectsMap[j].projectAddress
                 /\ CreationBlock(projectsMap[i].projectAddress)
                       <= CreationBlock(projectsMap[j].projectAddress)

\* Two projects created in different windows, the older one with the larger
\* address, both found and returned.
C10_Witness ==
    /\ discPc = "returned"
    /\ chainCount = 2
    /\ Len(chainEvents) = 2
    /\ Len(queries) >= 2
    /\ chainEvents[1].project = 2
    /\ chainEvents[1].blockNumber < chainEvents[2].blockNumber
    /\ Len(projectsMap) = 2

\* C11: the list discovery returns has as many entries as the project count
\* it read from the registry, also when the registry records projects between
\* discovery's read of the block height and its read of the count.
C11_ListLengthEqualsCountRead ==
    discPc = "returned" => Len(projectsMap) = totalProjects

(***************************************************************************)
(* Claims about execute, checked under Spec.                               *)
(***************************************************************************)
PositionActionNames ==
    {"decreaseLiquidity", "collect", "approveToken0", "approveToken1",
     "increaseLiquidity"}

ApprovalNames == {"approveToken0", "approveToken1"}

\* Eligibility as the specification words it: a direction, and at least 150 bps.
Eligible(metric) == metric.direction # "none" /\ metric.deviationBps >= 150

MetricsKnown == \A i \in DOMAIN metrics : metrics[i].kind = "metric"

RecordsOf(name, projectAddress) ==
    { k \in DOMAIN actions : /\ actions[k].name = name
                             /\ actions[k].projectAddress = projectAddress }

InFlightOf(name, projectAddress) ==
    { c \in callsInFlight : c.name = name /\ c.projectAddress = projectAddress }

\* C1: a project never has more than one accrueInterest call (in flight or
\* recorded); a position action of a project is issued, and recorded, only
\* once an accrueInterest record of that project exists; and a run that ends
\* in success holds exactly one accrueInterest record per eligible project.
C1_AccrueOnceBeforePositionActions ==
    /\ \A i \in DOMAIN projects :
          Cardinality(RecordsOf("accrueInterest", projects[i].projectAddress))
            + Cardinality(InFlightOf("accrueInterest", projects[i].projectAddress))
              <= 1
    /\ \A c \in callsInFlight :
          c.name \in PositionActionNames =>
              RecordsOf("accrueInterest", c.projectAddress) # {}
    /\ \A k \in DOMAIN actions :
          actions[k].name \in PositionActionNames =>
              \E j \in 1..(k - 1) : /\ actions[j].name = "accrueInterest"
                                    /\ actions[j].projectAddress
                                          = actions[k].projectAddress
    /\ pc = "done" =>
          \A i \in DOMAIN metrics :
              Eligible(metrics[i]) =>
                  Cardinality(RecordsOf("accrueInterest",
                                        metrics[i].project.projectAddress)) = 1

\* Two eligible projects done, each with its accrual first and a position
\* action after it.
C1_Witness ==
    /\ pc = "done"
    /\ Len(actions) >= 4
    /\ \A i \in DOMAIN metrics : Eligible(metrics[i])
    /\ \E j, k \in DOMAIN actions :
          /\ j < k
          /\ actions[j].name = "accrueInterest"
          /\ actions[j].projectAddress = 2
          /\ actions[k].name \in PositionActionNames
          /\ actions[k].projectAddress = 2

\* C2: a collect is in flight only right after the decreaseLiquidity record of
\* the same tokenId; every collect record directly follows such a record; and
\* in a successful run every decreaseLiquidity record is directly followed by
\* the collect record of the same tokenId.
C2_CollectFollowsDecrease ==
    /\ \A c \in callsInFlight :
          c.name = "collect" =>
              /\ actions # <<>>
              /\ actions[Len(actions)].name = "decreaseLiquidity"
              /\ actions[Len(actions)].tokenId = c.tokenId
    /\ \A k \in DOMAIN actions :
          actions[k].name = "collect" =>
              /\ k > 1
              /\ actions[k - 1].name = "decreaseLiquidity"
              /\ actions[k - 1].tokenId = actions[k].tokenId
    /\ pc = "done" =>
          \A k \in DOMAIN actions :
              actions[k].name = "decreaseLiquidity" =>
                  /\ k < Len(actions)
                  /\ actions[k + 1].name = "collect"
                  /\ actions[k + 1].tokenId = actions[k].tokenId

C2_Witness ==
    /\ pc = "done"
    /\ \E k \in DOMAIN actions :
          /\ actions[k].name = "decreaseLiquidity"
          /\ actions[k + 1].name = "collect"
          /\ actions[k + 1].tokenId = actions[k].tokenId

ApprovalRecorded(name, call) ==
    \E k \in DOMAIN actions :
        /\ actions[k].name = name
        /\ actions[k].tokenId = call.tokenId
        /\ actions[k].projectAddress = call.projectAddress

\* C3: while increaseLiquidity is in flight for a position no approval is in
\* flight, and each approval the position needs (read balance above read
\* allowance) is recorded for it; in the log no approval of a position comes
\* after its increaseLiquidity.
C3_ApprovalsBeforeIncrease ==
    /\ \A c \in callsInFlight :
          c.name = "increaseLiquidity" =>
              /\ \A d \in callsInFlight : d.name \notin ApprovalNames
              /\ balances.balance0 > balances.allowance0
                    => ApprovalRecorded("approveToken0", c)
              /\ balances.balance1 > balances.allowance1
                    => ApprovalRecorded("approveToken1", c)
    /\ \A j, k \in DOMAIN actions :
          ( /\ actions[k].name = "increaseLiquidity"
            /\ actions[j].name \in ApprovalNames
            /\ actions[j].tokenId = actions[k].tokenId
            /\ actions[j].projectAddress = actions[k].projectAddress ) => j < k

C3_Witness ==
    \E c \in callsInFlight :
        /\ c.name = "increaseLiquidity"
        /\ balances.balance0 > balances.allowance0
        /\ balances.balance1 > balances.allowance1
        /\ ApprovalRecorded("approveToken0", c)
        /\ ApprovalRecorded("approveToken1", c)

\* C4: at most one contractCall is in flight, and one is in flight only when
\* every call issued before it has returned its hash and been recorded.
C4_MutatingCallsSequential ==
    /\ Cardinality(callsInFlight) <= 1
    /\ issued <= Len(actions) + 1
    /\ callsInFlight # {} => issued = Len(actions) + 1
    /\ \A c \in callsInFlight : c.txHash = issued

\* The third call of a run in flight, after reads that ran concurrently (two
\* projects' metrics).
C4_Witness ==
    /\ callsInFlight # {}
    /\ Len(actions) = 2
    /\ Len(metrics) = 2

\* C5: a project that is not eligible (direction none, or under 150 bps) is
\* the target of no contractCall and of no ActionRecord, and its action list
\* in the report is empty; in a successful run a project has been rebalanced
\* (has its accrueInterest record) exactly if it is eligible.
C5_OnlyEligibleProjectsActedOn ==
    MetricsKnown =>
        /\ \A i \in DOMAIN metrics :
              ~Eligible(metrics[i]) =>
                  /\ \A c \in callsInFlight :
                        c.projectAddress # metrics[i].project.projectAddress
                  /\ \A k \in DOMAIN actions :
                        actions[k].projectAddress
                            # metrics[i].project.projectAddress
                  /\ pc = "done" => result.projects[i].actions = <<>>
        /\ pc = "done" =>
              \A i \in DOMAIN metrics :
                  Eligible(metrics[i]) <=>
                      RecordsOf("accrueInterest",
                                metrics[i].project.projectAddress) # {}

\* A successful run over a project 149 bps off (skipped) and one exactly
\* 150 bps off (rebalanced).
C5_Witness ==
    /\ pc = "done"
    /\ Len(metrics) = 2
    /\ metrics[1].deviationBps = 149
    /\ metrics[1].direction = "increase"
    /\ metrics[2].deviationBps = 150
    /\ result.projects[1].actions = <<>>
    /\ result.projects[2].actions # <<>>

TokenSet(a, b) == {toLowerCase(a), toLowerCase(b)}

\* The position's unordered, case-insensitive token pair is no project's.
Unmatched(position) ==
    \A i \in DOMAIN metrics :
        TokenSet(position.token0, position.token1)
            # TokenSet(metrics[i].project.tokenAddress,
                       metrics[i].project.pyusdAddress)

TokenIdsOf(projectAddress) ==
    UNION { { metrics[i].positions[k].tokenId : k \in DOMAIN metrics[i].positions } :
            i \in { j \in DOMAIN metrics :
                      metrics[j].project.projectAddress = projectAddress } }

\* C6: an owned position whose token pair is no project's is in no project's
\* positions and its tokenId is in no contractCall and no ActionRecord; the
\* tokenId of every contractCall and ActionRecord is one of the positions of
\* the project the call or record names.
C6_UnmatchedPositionsUntouched ==
    MetricsKnown =>
        /\ \A n \in DOMAIN ownedPositions :
              Unmatched(ownedPositions[n]) =>
                  /\ \A i \in DOMAIN metrics :
                        ownedPositions[n] \notin Range(metrics[i].positions)
                  /\ \A c \in callsInFlight :
                        c.tokenId # ownedPositions[n].tokenId
                  /\ \A k \in DOMAIN actions :
                        actions[k].tokenId # ownedPositions[n].tokenId
        /\ \A c \in callsInFlight :
              c.tokenId # 0 => c.tokenId \in TokenIdsOf(c.projectAddress)
        /\ \A k \in DOMAIN actions :
              actions[k].tokenId # 0 =>
                  actions[k].tokenId \in TokenIdsOf(actions[k].projectAddress)

\* A successful run that acted on a matched position while the wallet also
\* held a position, with liquidity, of a pair no project has.
C6_Witness ==
    /\ pc = "done"
    /\ \E n \in DOMAIN ownedPositions :
          /\ Unmatched(ownedPositions[n])
          /\ ownedPositions[n].liquidity > 0
    /\ \E k \in DOMAIN actions : actions[k].tokenId # 0

\* C7: on the decrease path a position with liquidity L > 0 gets a
\* decreaseLiquidity for floor(L * 2500 / 10000), or for all of L when that
\* floor is 0, followed by its collect; it is not skipped.
C7_FullRemovalWhenShareRoundsToZero ==
    /\ \A c \in callsInFlight :
          c.name = "decreaseLiquidity" =>
              \E i \in DOMAIN metrics : \E k \in DOMAIN metrics[i].positions :
                  LET L == metrics[i].positions[k].liquidity IN
                  /\ metrics[i].positions[k].tokenId = c.tokenId
                  /\ c.liquidity = IF (L * 2500) \div 10000 = 0 THEN L
                                   ELSE (L * 2500) \div 10000
    /\ pc = "done" =>
          \A i \in DOMAIN metrics :
              (Eligible(metrics[i]) /\ metrics[i].direction = "decrease") =>
                  \A k \in DOMAIN metrics[i].positions :
                      metrics[i].positions[k].liquidity > 0 =>
                          \E a \in DOMAIN actions :
                              /\ actions[a].name = "decreaseLiquidity"
                              /\ actions[a].tokenId
                                    = metrics[i].positions[k].tokenId

\* The four calls of one increase with both approvals, in order.
AccrueApproveApproveIncrease ==
    <<"accrueInterest", "approveToken0", "approveToken1", "increaseLiquidity">>

\* One discovered project, 250 bps under its target (direction increase), the
\* wallet's one position matched to it and holding liquidity, and every
\* balance/allowance read so far returning both balances nonzero and both
\* allowances zero.
OneIncreaseWithBothApprovals ==
    /\ Len(metrics) = 1
    /\ MetricsKnown
    /\ metrics[1].direction = "increase"
    /\ metrics[1].deviationBps = 250
    /\ Len(ownedPositions) = 1
    /\ Len(metrics[1].positions) = 1
    /\ metrics[1].positions[1].liquidity > 0
    /\ \A k \in DOMAIN walletReads :
          /\ walletReads[k].balance0 > 0
          /\ walletReads[k].balance1 > 0
          /\ walletReads[k].allowance0 = 0
          /\ walletReads[k].allowance1 = 0

\* C14: in that run the calls issued are, in this order and one at a time,
\* accrueInterest, approveToken0, approveToken1, increaseLiquidity and no
\* other; when the run succeeds all four have been issued and recorded and
\* the report's totalActions is 4.
C14_AccrueTwoApprovalsIncrease ==
    OneIncreaseWithBothApprovals =>
        /\ issued <= 4
        /\ Len(actions) <= 4
        /\ \A k \in DOMAIN actions :
              /\ actions[k].name = AccrueApproveApproveIncrease[k]
              /\ actions[k].txHash = k
        /\ \A c \in callsInFlight :
              /\ c.txHash \in 1..4
              /\ c.name = AccrueApproveApproveIncrease[c.txHash]
        /\ pc = "done" =>
              /\ issued = 4
              /\ Len(actions) = 4
              /\ result.kind = "success"
              /\ result.totalActions = 4

C14_Witness ==
    /\ OneIncreaseWithBothApprovals
    /\ pc = "done"
    /\ Len(walletReads) = 1
    /\ Len(actions) = 4

\* What can make a run fail whatever the registry holds: a chain read that
\* throws, an unsupported network, and (execute only) a delegation context
\* without the PKP's key or address.
OtherFailureCauses ==
    {"RPC read failed", "Unsupported network",
     "Delegation context missing PKP information"}

\* C15: against a valid registry whose projectCount is 0, discovery issues no
\* event query and returns the empty list; no contractCall is ever issued;
\* precheck succeeds with projectCount 0 and execute succeeds with
\* totalActions 0 and no project; and a run fails only for one of the causes
\* above, never for the registry being empty.
C15_ZeroProjectsIsANoOp ==
    (registryValid /\ chainCount = 0) =>
        /\ queries = <<>>
        /\ discPc = "returned" => projectsMap = <<>>
        /\ projects = <<>>
        /\ issued = 0
        /\ callsInFlight = {}
        /\ actions = <<>>
        /\ pc = "precheck:done" =>
              /\ result.kind = "success"
              /\ result.projectCount = 0
              /\ result.projects = <<>>
        /\ pc = "done" =>
              /\ result.kind = "success"
              /\ result.totalActions = 0
              /\ result.projects = <<>>
        /\ pc \in {"failed", "precheck:failed"} =>
              result.error \in OtherFailureCauses
        /\ (pc = "failed"
              /\ result.error = "Delegation context missing PKP information") =>
              ~(delegation.publicKey /\ delegation.ethAddress)

\* execute has succeeded against a registry that reports no project.
C15_Witness ==
    /\ registryValid
    /\ chainCount = 0
    /\ discPc = "returned"
    /\ pc = "done"
    /\ result.totalActions = 0

\* The message of the throw for a target price of zero.
TargetZeroMessage == "Target pool price returned 0 from CornerstoneProject"

\* C16: a run, of precheck or of execute, in which a project's target price
\* read as zero has failed with the category NAV_TARGET_ZERO, holds no
\* metrics for every project (so no deviation for the one with the zero
\* target) and has issued no contractCall.
C16_ZeroTargetFailsAsNavTargetZero ==
    (result.kind = "fail" /\ result.error = TargetZeroMessage) =>
        /\ pc \in {"failed", "precheck:failed"}
        /\ result.reason = "NAV_TARGET_ZERO"
        /\ \E i \in DOMAIN metrics : metrics[i] = NoValue
        /\ issued = 0
        /\ actions = <<>>

\* No delegation context: neither the PKP's public key nor its address.
DelegationAbsent == ~delegation.publicKey /\ ~delegation.ethAddress

DelegationMessage == "Delegation context missing PKP information"

\* C17: with no delegation context neither handler ever reads positions.
\* precheck never fails for that reason, and when it succeeds it reports
\* trackedPositions 0 and positionCount 0 for every project.  execute never
\* succeeds and never issues a contractCall, and once discovery and every
\* project's metrics reads have succeeded it has failed with the delegation
\* message.
C17_AbsentDelegation ==
    DelegationAbsent =>
        /\ pc \notin {"positions", "precheck:positions"}
        /\ ownedPositions = <<>>
        /\ pc = "precheck:failed" => result.error # DelegationMessage
        /\ pc = "precheck:done" =>
              /\ result.kind = "success"
              /\ result.trackedPositions = 0
              /\ \A i \in DOMAIN result.projects :
                    result.projects[i].positionCount = 0
        /\ pc # "done"
        /\ issued = 0
        /\ callsInFlight = {}
        /\ (pc = "failed" /\ discPc = "returned" /\ projects = projectsMap
              /\ MetricsKnown /\ readsInFlight = {}) =>
              /\ result.kind = "fail"
              /\ result.error = DelegationMessage

\* precheck has succeeded over two projects without a delegation context.
C17_Witness ==
    /\ DelegationAbsent
    /\ pc = "precheck:done"
    /\ Len(result.projects) = 2
    /\ result.trackedPositions = 0

\* C18: when execute has failed because the delegation context lacks the
\* PKP's public key or its address, the failure's category is POLICY_ERROR.
C18_MissingDelegationIsPolicyError ==
    (pc = "failed" /\ result.error = DelegationMessage) =>
        /\ ~(delegation.publicKey /\ delegation.ethAddress)
        /\ result.reason = "POLICY_ERROR"

\* The handler has returned.
Returned == pc \in {"done", "failed", "precheck:done", "precheck:failed"}

\* KNOWN_ERRORS (schemas.ts:5-12)
KnownErrors ==
    {"INVALID_REGISTRY_ADDRESS", "PROJECT_DISCOVERY_FAILED",
     "POSITION_DISCOVERY_FAILED", "NAV_TARGET_ZERO", "PROVIDER_ERROR",
     "POLICY_ERROR"}

ErrorMessages ==
    {"Invalid registry address", "Unsupported network", "RPC read failed",
     TargetZeroMessage, DelegationMessage, "contractCall failed"}

\* C19: while a handler has not returned it holds no result and can take a
\* further step; whatever read or contractCall fails, and wherever, the run
\* ends in a failure that carries one of the known categories and the
\* error's message; a handler that has returned holds exactly one result, a
\* success or such a failure, and takes no further step.
C19_OneStructuredResult ==
    /\ ~Returned =>
          /\ result = NoValue
          /\ ENABLED Next
    /\ Returned =>
          /\ result.kind \in {"success", "fail"}
          /\ ~ENABLED Next
    /\ pc \in {"done", "precheck:done"} => result.kind = "success"
    /\ pc \in {"failed", "precheck:failed"} =>
          /\ result.kind = "fail"
          /\ result.reason \in KnownErrors
          /\ result.error \in ErrorMessages

\* execute has failed on a contractCall after recording an earlier one.
C19_Witness ==
    /\ pc = "failed"
    /\ result.kind = "fail"
    /\ result.error = "contractCall failed"
    /\ Len(actions) >= 1

\* execute's reads that come before its project loop have all succeeded:
\* the network, discovery, every project's metrics and the owned positions.
ReadsBeforeLoopSucceeded ==
    /\ pc \notin {"start", "network", "discover", "metrics", "positions"}
    /\ discPc = "returned"
    /\ projects = projectsMap
    /\ Len(metrics) = Len(projects)
    /\ MetricsKnown
    /\ \A i \in DOMAIN metrics : <<"metrics", i>> \notin readsInFlight
    /\ metricIndex >= 1

\* C20: a contractCall has been issued only if all those reads succeeded; a
\* run in which one of them failed (or which has not finished them) has
\* issued none, recorded none and, if it has returned, has returned a
\* failure, whatever the metrics of the other projects are.
C20_NoCallBeforeAllReadsSucceed ==
    /\ (issued > 0 \/ callsInFlight # {} \/ actions # <<>>) =>
          ReadsBeforeLoopSucceeded
    /\ (pc \in {"done", "failed"} /\ ~ReadsBeforeLoopSucceeded) =>
          /\ pc = "failed"
          /\ result.kind = "fail"
          /\ issued = 0
          /\ callsInFlight = {}
          /\ actions = <<>>

\* The second project's metrics read failed after the first project's had
\* returned metrics that make it eligible: a failure, and no call.
C20_Witness ==
    /\ pc = "failed"
    /\ Len(metrics) = 2
    /\ metrics[1].kind = "metric"
    /\ Eligible(metrics[1])
    /\ metrics[2] = NoValue
    /\ result.error = "RPC read failed"
    /\ issued = 0

\* The contractCalls that threw: issued, neither in flight nor recorded.
FailedCalls == issued - Len(actions) - Cardinality(callsInFlight)

\* C21: when a contractCall of execute has thrown, after any number of
\* earlier calls that returned a hash, it is the last call the run issued:
\* no call is in flight, exactly one call has failed, the handler has
\* returned a failure that carries the call's error, and it takes no further
\* step (no remaining action, no compensating one); a success report is
\* returned only by a run none of whose calls failed.
C21_FailedCallEndsTheRun ==
    /\ FailedCalls \in {0, 1}
    /\ FailedCalls = 1 =>
          /\ pc = "failed"
          /\ result.kind = "fail"
          /\ result.error = "contractCall failed"
          /\ callsInFlight = {}
          /\ readsInFlight = {}
          /\ ~ENABLED Next
    /\ pc = "done" => FailedCalls = 0
    /\ (pc = "failed" /\ result.error = "contractCall failed") => FailedCalls = 1

\* The third call of a run failed after two earlier calls had returned
\* their hashes.
C21_Witness ==
    /\ pc = "failed"
    /\ result.error = "contractCall failed"
    /\ Len(actions) = 2
    /\ issued = 3

\* C22: no run of precheck or execute fails on a chain read whose error was
\* retryable and whose attempt was below the retry ceiling: whichever read
\* it is (chain identifier, discovery, metrics, position enumeration, token
\* balances and allowances), such a failure is retried, never surfaced.
C22_TransientReadFailureNeverSurfaces ==
    readFailure # NoValue =>
        ~(/\ isRetryableRpcError(readFailure.error)
          /\ readFailure.attempt < RPC_MAX_RETRIES)

RECURSIVE ActionListLengths(_, _)
ActionListLengths(summaries, n) ==
    IF n = 0 THEN 0
    ELSE Len(summaries[n].actions) + ActionListLengths(summaries, n - 1)

\* The positions of the log whose record belongs to a project.
LogPositionsOf(projectAddress) ==
    { k \in DOMAIN actions : actions[k].projectAddress = projectAddress }

\* C24: the k-th record of the log carries the hash of the k-th contractCall
\* issued (one record per returned hash, in issue order); in a successful
\* execute every issued call has its record, totalActions is their number
\* and the sum of the lengths of the per-project lists, and each project's
\* list is exactly the log's records of that project, in the log's order.
C24_OneRecordPerCallGroupedByProject ==
    /\ \A k \in DOMAIN actions : actions[k].txHash = k
    /\ Len(actions) <= issued
    /\ pc = "done" =>
          /\ Len(actions) = issued
          /\ result.totalActions = issued
          /\ Len(result.projects) = Len(metrics)
          /\ ActionListLengths(result.projects, Len(result.projects))
                = result.totalActions
          /\ \A i \in DOMAIN result.projects :
                LET list == result.projects[i].actions
                    own == LogPositionsOf(metrics[i].project.projectAddress)
                IN /\ Len(list) = Cardinality(own)
                   /\ \A j \in DOMAIN list :
                         /\ list[j].projectAddress
                               = metrics[i].project.projectAddress
                         /\ list[j].txHash \in own
                         /\ list[j] = actions[list[j].txHash]
                   /\ \A j1, j2 \in DOMAIN list :
                         j1 < j2 => list[j1].txHash < list[j2].txHash

\* A successful execute that acted on two projects.
C24_Witness ==
    /\ pc = "done"
    /\ Len(result.projects) = 2
    /\ Len(result.projects[1].actions) >= 2
    /\ Len(result.projects[2].actions) >= 2
    /\ result.totalActions = Len(actions)

\* The stage whose read threw to the handler.
FailedStage == IF readFailure = NoValue THEN "none" ELSE readFailure.stage

\* C25: a handler that failed because the registry/event scan could not
\* complete (a discovery read threw out of its retries, or the chain
\* identifier is unsupported) reports PROJECT_DISCOVERY_FAILED, and one that
\* failed because the owned-position enumeration threw reports
\* POSITION_DISCOVERY_FAILED.
C25_FailureCategoryNamesTheStage ==
    pc \in {"failed", "precheck:failed"} =>
        /\ (FailedStage = "discovery" \/ result.error = "Unsupported network")
              => result.reason = "PROJECT_DISCOVERY_FAILED"
        /\ FailedStage = "positions"
              => result.reason = "POSITION_DISCOVERY_FAILED"

\* ceil((h + 1) / MAX_EVENT_BLOCK_SPAN)
WindowsBound(h) == (h + MAX_EVENT_BLOCK_SPAN) \div MAX_EVENT_BLOCK_SPAN

\* The distinct projects whose creation event lies in one of the first k
\* windows queried.
SeenThrough(k) ==
    { chainEvents[i].project : i \in
        { i \in DOMAIN chainEvents :
            \E j \in 1..k : /\ queries[j][1] <= chainEvents[i].blockNumber
                            /\ chainEvents[i].blockNumber <= queries[j][2] } }

\* The scan loop has been left without a throw.
ScanOver == discPc \in {"pyusd", "returned"}

ScanStopsAtCountOrBlockZero ==
    /\ Len(queries) <= WindowsBound(latestBlock)
    /\ totalProjects = 0 => queries = <<>>
    /\ \A k \in 1..Len(queries) :
          Cardinality(SeenThrough(k - 1)) < totalProjects
    /\ seenProjects = SeenThrough(Len(queries))
    /\ (ScanOver /\ totalProjects > 0) =>
          /\ queries # <<>>
          /\ \/ Cardinality(seenProjects) >= totalProjects
             \/ queries[Len(queries)][1] = 0

\* C28: every window query was issued while the distinct projects seen in
\* the windows before it were fewer than the count read; a scan that has
\* ended has reached the count or its last window starts at block 0; never
\* more than ceil((H + 1) / 10) windows are queried for latest block H; and
\* a scan that has started is always left, whether or not the count is ever
\* reached.
C28_ScanStopsAndTerminates ==
    /\ []ScanStopsAtCountOrBlockZero
    /\ (discPc = "scan") ~> (discPc # "scan")

\* The registry's count exceeds the projects that have an event: the scan
\* ran over all three windows of a 22-block chain down to block 0 and ended
\* without reaching the count.
C28_Witness ==
    /\ ScanOver
    /\ latestBlock = 21
    /\ Len(queries) = 3
    /\ queries[3][1] = 0
    /\ Cardinality(seenProjects) < totalProjects
    /\ seenProjects # {}

\* The windows among the first n that contain block b.
WindowsHolding(b, n) ==
    { k \in 1..n : queries[k][1] <= b /\ b <= queries[k][2] }

\* C29: every range passed to queryFilter has 0 <= start <= end and spans at
\* most 10 blocks; the first ends at the latest block and each later one
\* ends just below the start of the one before, so every block from the
\* last window's start up to the latest block lies in exactly one window.
C29_WindowsDisjointAndContiguous ==
    /\ \A k \in DOMAIN queries :
          /\ 0 <= queries[k][1]
          /\ queries[k][1] <= queries[k][2]
          /\ queries[k][2] - queries[k][1] + 1 <= MAX_EVENT_BLOCK_SPAN
          /\ k = 1 => queries[k][2] = latestBlock
          /\ k > 1 => queries[k][2] = queries[k - 1][1] - 1
    /\ queries # <<>> =>
          /\ currentEndBlock = queries[Len(queries)][1] - 1
          /\ \A b \in 0..latestBlock :
                Cardinality(WindowsHolding(b, Len(queries)))
                   = IF b >= queries[Len(queries)][1] THEN 1 ELSE 0

\* A chain of 21 blocks scanned in two full windows and a last window that
\* holds block 0 alone.
C29_Witness ==
    /\ latestBlock = 20
    /\ queries = << <<11, 20>>, <<1, 10>>, <<0, 0>> >>

IncreasePathNames == {"approveToken0", "approveToken1", "increaseLiquidity"}

\* The hashes of the calls of one function issued for a position: those
\* recorded and the one in flight.
IssuedFor(name, tokenId) ==
    { actions[k].txHash : k \in { j \in DOMAIN actions :
                                     /\ actions[j].name = name
                                     /\ actions[j].tokenId = tokenId } }
       \cup { c.txHash : c \in { d \in callsInFlight :
                                     d.name = name /\ d.tokenId = tokenId } }

\* The approval of one token precedes the increase of the same position.
ApprovedBeforeIncrease(name, tokenId) ==
    \A a \in IssuedFor(name, tokenId) :
    \A i \in IssuedFor("increaseLiquidity", tokenId) : a < i

\* C31: for every position whose balances and allowances were read: with
\* both balances zero, no approval and no increaseLiquidity is issued for it;
\* an approval of token i is issued only if balance_i exceeds allowance_i,
\* and once increaseLiquidity is issued the approval of token i has been
\* issued before it exactly if balance_i exceeds allowance_i; a call in
\* flight approves exactly balance_i, and increaseLiquidity carries balance0
\* and balance1 as its desired amounts; a run that succeeds has issued
\* increaseLiquidity for every position read with a nonzero balance.
C31_IncreasePathApprovalsAndAmounts ==
    /\ \A k \in DOMAIN walletReads :
          LET b == walletReads[k]
              id == b.tokenId
          IN /\ (b.balance0 = 0 /\ b.balance1 = 0) =>
                   \A name \in IncreasePathNames : IssuedFor(name, id) = {}
             /\ \A name \in IncreasePathNames :
                   Cardinality(IssuedFor(name, id)) <= 1
             /\ IssuedFor("approveToken0", id) # {} => b.balance0 > b.allowance0
             /\ IssuedFor("approveToken1", id) # {} => b.balance1 > b.allowance1
             /\ IssuedFor("increaseLiquidity", id) # {} =>
                   /\ IssuedFor("approveToken0", id) # {}
                         <=> b.balance0 > b.allowance0
                   /\ IssuedFor("approveToken1", id) # {}
                         <=> b.balance1 > b.allowance1
                   /\ ApprovedBeforeIncrease("approveToken0", id)
                   /\ ApprovedBeforeIncrease("approveToken1", id)
             /\ (pc = "done" /\ ~(b.balance0 = 0 /\ b.balance1 = 0)) =>
                   IssuedFor("increaseLiquidity", id) # {}
    /\ \A c \in callsInFlight :
          c.name \in IncreasePathNames =>
             /\ walletReads # <<>>
             /\ LET b == walletReads[Len(walletReads)]
                IN /\ c.tokenId = b.tokenId
                   /\ c.name = "approveToken0" => c.amount0 = b.balance0
                   /\ c.name = "approveToken1" => c.amount1 = b.balance1
                   /\ c.name = "increaseLiquidity" =>
                         /\ c.amount0 = b.balance0
                         /\ c.amount1 = b.balance1
    /\ \A k \in DOMAIN actions :
          actions[k].name \in IncreasePathNames =>
             \E j \in DOMAIN walletReads :
                walletReads[j].tokenId = actions[k].tokenId

\* increaseLiquidity is in flight with amounts 5 and 6 for a position whose
\* token 1 alone needed an approval (allowances 5 and 4): approveToken1 is
\* recorded for it and approveToken0 is not.
C31_Witness ==
    /\ walletReads # <<>>
    /\ LET b == walletReads[Len(walletReads)]
       IN /\ b.balance0 = 5 /\ b.allowance0 = 5
          /\ b.balance1 = 6 /\ b.allowance1 = 4
          /\ IssuedFor("approveToken0", b.tokenId) = {}
          /\ IssuedFor("approveToken1", b.tokenId) # {}
          /\ \E c \in callsInFlight :
                /\ c.name = "increaseLiquidity"
                /\ c.tokenId = b.tokenId
                /\ c.amount0 = 5
                /\ c.amount1 = 6

PositionCallNames ==
    {"decreaseLiquidity", "collect", "approveToken0", "approveToken1",
     "increaseLiquidity"}

\* C32: no decreaseLiquidity, collect, approval or increaseLiquidity is ever
\* issued for an owned position whose liquidity was read as zero; no
\* approval is issued for a token whose balance was read as zero; and the
\* liquidity a decreaseLiquidity call carries is greater than 0 and at most
\* the liquidity read for its position.
C32_ActionsOnlyOnConfirmedPreconditions ==
    /\ \A k \in DOMAIN ownedPositions :
          ownedPositions[k].liquidity = 0 =>
             \A name \in PositionCallNames :
                IssuedFor(name, ownedPositions[k].tokenId) = {}
    /\ \A k \in DOMAIN walletReads :
          /\ walletReads[k].balance0 = 0 =>
                IssuedFor("approveToken0", walletReads[k].tokenId) = {}
          /\ walletReads[k].balance1 = 0 =>
                IssuedFor("approveToken1", walletReads[k].tokenId) = {}
          /\ ownedPositions[walletReads[k].tokenId].liquidity > 0
    /\ \A c \in callsInFlight :
          c.name \in PositionCallNames =>
             /\ c.tokenId \in DOMAIN ownedPositions
             /\ ownedPositions[c.tokenId].tokenId = c.tokenId
             /\ ownedPositions[c.tokenId].liquidity > 0
             /\ c.name = "decreaseLiquidity" =>
                   /\ c.liquidity > 0
                   /\ c.liquidity <= ownedPositions[c.tokenId].liquidity

\* The first owned position has no liquidity and was passed over; for the
\* second, of liquidity 4, decreaseLiquidity is in flight with liquidity 1.
C32_Witness ==
    /\ Len(ownedPositions) = 2
    /\ ownedPositions[1].liquidity = 0
    /\ ownedPositions[2].liquidity = 4
    /\ \A name \in PositionCallNames : IssuedFor(name, 1) = {}
    /\ \E c \in callsInFlight :
          /\ c.name = "decreaseLiquidity"
          /\ c.tokenId = 2
          /\ c.liquidity = 1
    /\ \E i \in DOMAIN metrics :
          /\ metrics[i] # NoValue
          /\ Len(metrics[i].positions) = 2

\* Where a position is attached: the (project index, list index) pairs.
Holders(tokenId) ==
    { h \in UNION { { <<i, k>> : k \in DOMAIN metrics[i].positions } :
                    i \in DOMAIN metrics } :
        metrics[h[1]].positions[h[2]].tokenId = tokenId }

\* The projects whose unordered, case-insensitive pair is the position's.
ProjectsOfPair(position) ==
    { i \in DOMAIN metrics :
        TokenSet(position.token0, position.token1)
            = TokenSet(metrics[i].project.tokenAddress,
                       metrics[i].project.pyusdAddress) }

\* C33: once the owned positions are attached, every owned position is in
\* the positions list of at most one project; it is in exactly one
\* when some project has its pair, also when two projects have that same
\* pair (it is then with the later of them and not with the other).
C33_PositionAttachedToAtMostOneProject ==
    (MetricsKnown /\ pc \notin {"metrics", "positions", "precheck:metrics",
                                "precheck:positions"}) =>
        \A n \in DOMAIN ownedPositions :
            LET position == ownedPositions[n]
                holders == Holders(position.tokenId)
                owners == ProjectsOfPair(position)
            IN /\ Cardinality({ h[1] : h \in holders }) <= 1
               /\ owners = {} <=> holders = {}
               /\ \A h \in holders :
                     /\ h[1] \in owners
                     /\ \A i \in owners : i <= h[1]
                     /\ metrics[h[1]].positions[h[2]] = position

\* Two discovered projects have the same pair and the wallet holds a
\* position of that pair: it is attached to the second project alone.
C33_Witness ==
    /\ Len(metrics) = 2
    /\ MetricsKnown
    /\ metrics[1].project.tokenAddress = metrics[2].project.tokenAddress
    /\ Len(ownedPositions) >= 1
    /\ ProjectsOfPair(ownedPositions[1]) = {1, 2}
    /\ Holders(ownedPositions[1].tokenId) = {<<2, 1>>}
    /\ metrics[1].positions = <<>>

\* C37: when every read and every dispatcher call settles, each run of
\* precheck or execute ends with a success or a failure result; a read that
\* threw to the handler had been attempted at most RPC_MAX_RETRIES times, the
\* scan asks at most one window per block, and the loops never pass the ends
\* of their lists.
C37_EveryRunTerminates ==
    /\ [](/\ readFailure # NoValue => readFailure.attempt <= RPC_MAX_RETRIES
          /\ Len(queries) <= chainLatest + 1
          /\ metricIndex <= Len(metrics) + 1
          /\ Len(settled) <= Len(projects))
    /\ <>(/\ Returned
          /\ result # NoValue
          /\ result.kind \in {"success", "fail"})

\* A run that went through every stage: two scan windows, two projects, a
\* decrease and an increase path, ended in success.
C37_Witness ==
    /\ pc = "done"
    /\ Len(queries) >= 2
    /\ Len(settled) = 2
    /\ Len(walletReads) >= 1
    /\ \E k, l \in DOMAIN actions : /\ actions[k].name = "decreaseLiquidity"
                                    /\ actions[l].name = "increaseLiquidity"

\* The projects whose metrics were read with no pool (getPool returned the
\* zero address).
WithoutPool == { i \in DOMAIN metrics : metrics[i] # NoValue /\ ~metrics[i].hasPool }

\* C38: a project without a pool (its target price is nonzero, or the read
\* had thrown) has currentPoolPrice 0, poolLiquidity 0, direction increase and
\* deviationBps 10000, so shouldRebalance holds for it; no decreaseLiquidity
\* or collect is issued for it; and a run that succeeds has recorded
\* accrueInterest for it and has read the wallet (the first step of the
\* increase path) for each of its positions that holds liquidity.
C38_ProjectWithoutPoolIsAlwaysRebalanced ==
    \A i \in WithoutPool :
       LET metric == metrics[i]
           address == metric.project.projectAddress
       IN /\ metric.targetPoolPrice # 0
          /\ metric.currentPoolPrice = 0
          /\ metric.poolLiquidity = 0
          /\ metric.direction = "increase"
          /\ metric.deviationBps = 10000
          /\ shouldRebalance(metric)
          /\ \A name \in {"decreaseLiquidity", "collect"} :
                /\ RecordsOf(name, address) = {}
                /\ InFlightOf(name, address) = {}
          /\ pc = "done" =>
                /\ RecordsOf("accrueInterest", address) # {}
                /\ \A k \in DOMAIN metric.positions :
                      metric.positions[k].liquidity # 0 =>
                         \E r \in DOMAIN walletReads :
                            walletReads[r].tokenId = metric.positions[k].tokenId

\* A successful run that accrued interest and increased the liquidity of a
\* position for a project that has no pool.
C38_Witness ==
    /\ pc = "done"
    /\ \E i \in WithoutPool :
          /\ RecordsOf("accrueInterest", metrics[i].project.projectAddress) # {}
          /\ RecordsOf("increaseLiquidity", metrics[i].project.projectAddress) # {}
          /\ summarizeMetric(metrics[i], actions) = result.projects[i]

\* C39: a failure of execute is made of the error's message and a category
\* alone, whatever had been recorded before the throw: its fields are the
\* message, one of the known messages, and the category, one of KNOWN_ERRORS,
\* and nothing else, so none of the recorded transaction hashes is part of it.
C39_FailureDropsRecordedActions ==
    pc = "failed" =>
       /\ DOMAIN result = {"kind", "error", "reason"}
       /\ result.kind = "fail"
       /\ result.error \in ErrorMessages
       /\ result.reason \in KnownErrors
       /\ result = executeCatch(result.error)

\* execute failed on a wallet read of the increase path after two calls had
\* returned their hashes.
C39_Witness ==
    /\ pc = "failed"
    /\ Len(actions) >= 2
    /\ result.error = "RPC read failed"
    /\ FailedStage = "balances"

\* The position of a project address in the discovered list.
IndexOfProject(projectAddress) ==
    CHOOSE i \in DOMAIN projects : projects[i].projectAddress = projectAddress

\* C36: whatever the order in which the metrics reads of Promise.all settle,
\* the i-th metric is the i-th discovered project's, the records of the run
\* follow the discovered order (a call in flight belongs to the project the
\* loop stands at, and no record belongs to a later one), and the i-th project
\* summary of a successful result is the i-th discovered project's.
C36_RegistryOrderUnderEveryCompletionOrder ==
    /\ \A i \in DOMAIN metrics :
          metrics[i] # NoValue => metrics[i].project = projects[i]
    /\ \A k, l \in DOMAIN actions :
          k < l => IndexOfProject(actions[k].projectAddress)
                      <= IndexOfProject(actions[l].projectAddress)
    /\ \A c \in callsInFlight :
          /\ metricIndex \in DOMAIN projects
          /\ c.projectAddress = projects[metricIndex].projectAddress
          /\ \A k \in DOMAIN actions :
                IndexOfProject(actions[k].projectAddress) <= metricIndex
    /\ pc \in {"done", "precheck:done"} =>
          /\ Len(result.projects) = Len(projects)
          /\ \A i \in DOMAIN projects :
                /\ result.projects[i].projectAddress = projects[i].projectAddress
                /\ result.projects[i].tokenAddress = projects[i].tokenAddress

\* A successful run over two projects whose metrics settled second project
\* first, both projects acted on.
C36_Witness ==
    /\ pc = "done"
    /\ settled = <<2, 1>>
    /\ Len(result.projects[1].actions) >= 1
    /\ Len(result.projects[2].actions) >= 1
    /\ projects[1].tokenAddress # projects[2].tokenAddress

(***************************************************************************)
(* Claims about calculateDeviation, checked under SpecDeviation.           *)
(***************************************************************************)
\* Both calls have returned for two different nonzero prices.
SwappedPairReturned ==
    /\ unitPc = "returned"
    /\ unitInput.currentPrice # unitInput.targetPrice
    /\ unitInput.currentPrice # 0
    /\ unitInput.targetPrice # 0

AbsDifference(a, b) == IF a > b THEN a - b ELSE b - a

\* C12 as stated: for two different nonzero prices the swapped call has the
\* opposite direction and the same deviationBps, and a call's direction is
\* none exactly when its current price equals its target.
C12_SwapKeepsDeviationBps ==
    /\ SwappedPairReturned =>
          /\ {unitOutput[1].direction, unitOutput[2].direction}
                = {"increase", "decrease"}
          /\ unitOutput[1].deviationBps = unitOutput[2].deviationBps
    /\ (unitPc = "returned" /\ unitInput.currentPrice # 0
           /\ unitInput.targetPrice # 0) =>
          (unitOutput[1].direction = "none"
              <=> unitInput.currentPrice = unitInput.targetPrice)

\* C12 amended: for two different nonzero prices the swapped call has the
\* opposite direction and the same absolute deviation |a - b|, but each
\* call's deviationBps is floor(|a - b| * 10000 / its own target), so the two
\* differ in general; and for nonzero prices a call's direction is none
\* exactly when its current price equals its target.
C12_SwapFlipsDirectionKeepsDifference ==
    /\ SwappedPairReturned =>
          LET d == AbsDifference(unitInput.currentPrice, unitInput.targetPrice) IN
          /\ {unitOutput[1].direction, unitOutput[2].direction}
                = {"increase", "decrease"}
          /\ unitOutput[1].deviation = d
          /\ unitOutput[2].deviation = d
          /\ unitOutput[1].deviationBps = (d * 10000) \div unitInput.targetPrice
          /\ unitOutput[2].deviationBps = (d * 10000) \div unitInput.currentPrice
    /\ (unitPc = "returned" /\ unitInput.currentPrice # 0
           /\ unitInput.targetPrice # 0) =>
          /\ unitOutput[1].direction = "none"
                <=> unitInput.currentPrice = unitInput.targetPrice
          /\ unitOutput[2].direction = "none"
                <=> unitInput.currentPrice = unitInput.targetPrice

\* Both calls returned for two different nonzero prices, with different
\* deviationBps.
C12_Witness ==
    /\ SwappedPairReturned
    /\ unitOutput[1].deviationBps # unitOutput[2].deviationBps

\* The first call, calculateDeviation(currentPrice, targetPrice), has
\* returned for a nonzero target.
DeviationReturned ==
    /\ unitPc \in {"swapped", "returned"}
    /\ unitInput.targetPrice # 0

\* C30: for a nonzero target t and any current price c the result's
\* deviationBps is the integer q with q * t <= |c - t| * 10000 < (q + 1) * t,
\* that is floor(|c - t| * 10000 / t); its direction is decrease when c > t,
\* increase when c < t, and none, with deviationBps 0, when c = t.
C30_DeviationBpsIsFloorOfTargetShare ==
    DeviationReturned =>
        LET c == unitInput.currentPrice
            t == unitInput.targetPrice
            q == unitOutput[1].deviationBps
        IN /\ q >= 0
           /\ q * t <= AbsDifference(c, t) * 10000
           /\ AbsDifference(c, t) * 10000 < (q + 1) * t
           /\ c > t => unitOutput[1].direction = "decrease"
           /\ c < t => unitOutput[1].direction = "increase"
           /\ c = t => /\ unitOutput[1].direction = "none"
                       /\ q = 0

\* A current price of 7 against a target of 3: 40000 / 3 is not an integer
\* and the result is 13333, direction decrease.
C30_Witness ==
    /\ DeviationReturned
    /\ unitInput.currentPrice = 7
    /\ unitInput.targetPrice = 3
    /\ unitOutput[1].deviationBps = 13333
    /\ unitOutput[1].direction = "decrease"

(***************************************************************************)
(* Claims about attachPositionsToProjects, checked under SpecMatching.     *)
(***************************************************************************)
\* The same address, whatever the letter case of either writing.
SameAddress(x, y) ==
    \/ x = y
    \/ x = y + NumTokens
    \/ y = x + NumTokens

\* The same two addresses, in either order and any letter case.
SameUnorderedPair(p0, p1, q0, q1) ==
    \/ SameAddress(p0, q0) /\ SameAddress(p1, q1)
    \/ SameAddress(p0, q1) /\ SameAddress(p1, q0)

\* C13: whenever a project's pair (token, stable) and a position's pair
\* (token0, token1) are the same two addresses, in either order and in any
\* letter case, the two match keys are equal and the position is attached to
\* the project.
C13_MatchKeyOrderAndCaseIndependent ==
    SameUnorderedPair(unitInput.tokenAddress, unitInput.pyusdAddress,
                      unitInput.token0, unitInput.token1) =>
        /\ PairKey(unitInput.tokenAddress, unitInput.pyusdAddress)
              = PairKey(unitInput.token0, unitInput.token1)
        /\ PairKey(unitInput.pyusdAddress, unitInput.tokenAddress)
              = PairKey(unitInput.token1, unitInput.token0)
        /\ unitPc = "returned" =>
              /\ Len(unitOutput[1].positions) = 1
              /\ unitOutput[1].positions[1].tokenId = 1

\* A position attached although it names the project's two tokens in the
\* other order and in the other letter case.
C13_Witness ==
    /\ unitPc = "returned"
    /\ unitInput.tokenAddress = 1
    /\ unitInput.pyusdAddress = Upper(PYUSD)
    /\ unitInput.token0 = PYUSD
    /\ unitInput.token1 = Upper(1)
    /\ Len(unitOutput[1].positions) = 1

(***************************************************************************)
(* Claims about fetchOwnedPositions, checked under SpecPositions.          *)
(***************************************************************************)
\* C34: the first read is the owner's count and it is the only count read;
\* after it the reads alternate, for index 0, 1, ... below the count, the
\* token id at that index and the position record of that token id, and the
\* n-th record read is the n-th entry of the list; a call that returns
\* returns exactly count entries, after 1 + 2 * count reads; a call in which
\* a read threw (also a tokenOfOwnerByIndex that reverts because the owner
\* holds fewer tokens than were counted) throws and returns no list.
C34_CountThenIndexReadsAllOrNothing ==
    /\ ownedReads # <<>> => ownedReads[1] = <<"balanceOf", 0>>
    /\ \A k \in 2..Len(ownedReads) :
          /\ ownedReads[k][1] # "balanceOf"
          /\ k % 2 = 0 =>
                /\ ownedReads[k] = <<"tokenOfOwnerByIndex", (k \div 2) - 1>>
                /\ ownedReads[k][2] < ownedCount
          /\ k % 2 = 1 =>
                /\ ownedReads[k][1] = "positions"
                /\ (k - 1) \div 2 \in DOMAIN ownedList
                /\ ownedList[(k - 1) \div 2] = PositionInfo(ownedReads[k][2])
    /\ Len(ownedList) = ownedIndex
    /\ Len(ownedList) <= ownedCount
    /\ ownedPc \in {"balanceOf", "tokenOfOwnerByIndex", "positions"} =>
          ownedResult = NoValue
    /\ ownedPc = "returned" =>
          /\ ownedResult = [kind |-> "value", positions |-> ownedList]
          /\ Len(ownedResult.positions) = ownedCount
          /\ Len(ownedReads) = 1 + 2 * ownedCount
    /\ ownedPc = "failed" => ownedResult = [kind |-> "thrown"]

\* The owner's holdings changed between two index reads: the call returned
\* the two entries it counted, both for the same token id.
C34_Witness ==
    /\ ownedPc = "returned"
    /\ ownedCount = 2
    /\ Len(ownedResult.positions) = 2
    /\ ownedResult.positions[1].tokenId = ownedResult.positions[2].tokenId

(***************************************************************************)
(* Claims about discoverNetworkConfig, checked under SpecNetwork.          *)
(***************************************************************************)
\* The lookup reported a chain id that has a static configuration.
LookupSupported ==
    /\ unitInput.lookup.kind = "network"
    /\ unitInput.lookup.chainId \in {1, 11155111}

\* The chain the url's text names, whatever its letter case: Sepolia when
\* it contains "sepolia", else mainnet when it contains "mainnet"; 0: none.
ChainNamedByUrl ==
    IF \E i \in DOMAIN unitInput.rpcUrl :
          unitInput.rpcUrl[i] \in {"sepolia", "SEPOLIA"}
    THEN 11155111
    ELSE IF \E i \in DOMAIN unitInput.rpcUrl :
               unitInput.rpcUrl[i] \in {"mainnet", "Mainnet"}
    THEN 1
    ELSE 0

\* C35: when the lookup reports a supported chain id the result is that
\* chain's static configuration; when the lookup throws and the url names a
\* chain the result is the named chain's configuration; and the call throws
\* exactly when the lookup yields no supported chain (it threw or reported
\* an unsupported id) and the url names none, rethrowing the lookup's error
\* if there was one.
C35_NetworkConfigResolution ==
    unitPc = "returned" =>
        /\ LookupSupported =>
              /\ unitOutput.kind = "config"
              /\ unitOutput.config.chainId = unitInput.lookup.chainId
        /\ (unitInput.lookup.kind = "error" /\ ChainNamedByUrl # 0) =>
              /\ unitOutput.kind = "config"
              /\ unitOutput.config.chainId = ChainNamedByUrl
        /\ unitOutput.kind = "thrown"
              <=> (~LookupSupported /\ ChainNamedByUrl = 0)
        /\ (unitOutput.kind = "thrown" /\ unitInput.lookup.kind = "error") =>
              unitOutput.error = unitInput.lookup
        /\ unitOutput.kind = "config" =>
              unitOutput.config = NETWORK_CONFIG[unitOutput.config.chainId]

\* The lookup threw and the url, written in capitals, names Sepolia: the
\* Sepolia configuration is returned.
C35_Witness ==
    /\ unitPc = "returned"
    /\ unitInput.lookup.kind = "error"
    /\ unitInput.rpcUrl = <<"infura", "SEPOLIA">>
    /\ unitOutput.kind = "config"
    /\ unitOutput.config.chainId = 11155111

=============================================================================
